---------------------------- MODULE Spec2Model ----------------------------
(***************************************************************************)
(* Model of the remote file-access layer of waveterm:                      *)
(*   - package iochan (ReaderChan / WriterChan / drainChannel), in its two  *)
(*     versions: ver = 2 is src/pkg/wshrpc/wshremote/wshremote.go:655-756   *)
(*     (packets with a sha256 checksum), ver = 1 is src/unnamed/part_002    *)
(*     (raw []byte packets, no checksum);                                   *)
(*   - RemoteTarStreamCommand (archive stream over an io.Pipe);             *)
(*   - RemoteStreamFileCommand (file and directory stream);                 *)
(*   - RemoteFileCopyCommand (copy of a tar stream into a destination);    *)
(*   - RemoteListEntriesCommand (directory listing, flat or recursive);     *)
(*   - RemoteFileTouchCommand, RemoteMkdirCommand, RemoteFileRenameCommand; *)
(*   - parseByteRange, fileInfoInternal, and utilfn.AddInt / AddIntSlice.   *)
(* Goroutines are processes with a program counter; a Go channel is a      *)
(* bounded FIFO with a closed flag; a send on a closed channel panics.      *)
(***************************************************************************)
EXTENDS Integers, Sequences, FiniteSets, TLC

\* ------------------------------------------------------------------ bounds
MaxLen == 3
LongChunks == 11
ChunkSize == 2
ChanCap == 2
MaxFailAt == 1
MaxTamper == 1
TarBlockSize == 3
MaxNodes == 4
MaxDirSize == 3
DirChunkSize == 2
IntBits == 3
MaxVals == 3

NoFail == 0 - 1

\* The byte values of the model.
Bytes == {0, 1}

Min(a, b) == IF a < b THEN a ELSE b

RECURSIVE SeqsUpTo(_)
SeqsUpTo(n) ==
    IF n = 0 THEN {<< >>}
    ELSE LET S == SeqsUpTo(n - 1)
         IN  S \cup {Append(s, b) : s \in {t \in S : Len(t) = n - 1}, b \in Bytes}

\* A multi-chunk input: LongChunks - 1 full chunks and a last, shorter one.
LongInput == [i \in 1..((LongChunks - 1) * ChunkSize + 1) |-> (i \div 3) % 2]

Inputs == SeqsUpTo(MaxLen) \cup {LongInput}

\* ----------------------------------------------------------------- packets
\* wshrpc.RespOrErrorUnion[iochantypes.Packet]: Error, or Response{Data, Checksum}.
\* alias marks a Data slice that shares the producer's buffer (ver 1 reuses buf).
DataPkt(d, al) == [kind |-> "data", data |-> d, sum |-> << >>, alias |-> al]
ChecksumPkt(s) == [kind |-> "checksum", data |-> << >>, sum |-> s, alias |-> FALSE]
ErrPkt(e)      == [kind |-> "error", data |-> << >>, sum |-> <<e>>, alias |-> FALSE]
NoPkt          == [kind |-> "none", data |-> << >>, sum |-> << >>, alias |-> FALSE]

\* sha256: the running hash is the byte string written so far, the digest a tagged
\* copy of it (collision-free: two digests are equal iff the hashed bytes are).
HashNew == << >>
HashWrite(h, b) == h \o b
HashSum(h) == <<"sha256", h>>

RECURSIVE Concat(_)
Concat(chunks) == IF chunks = << >> THEN << >> ELSE Head(chunks) \o Concat(Tail(chunks))

SelectKind(s, k) == SelectSeq(s, LAMBDA p : p.kind = k)
DataOf(s) == [i \in 1..Len(SelectKind(s, "data")) |-> SelectKind(s, "data")[i].data]
IsTerminal(p) == p.kind \in {"checksum", "error"}

VARIABLES
    ver,        \* iochan version: 1 (part_002) or 2 (wshremote.go)
    ctxDone,    \* the context handed to ReaderChan / the operation is cancelled
    callerCancelled, \* the caller's own context was cancelled
    cancelledMid, \* the caller cancelled mid-stream: after a data chunk, data left (history)
    ch,         \* the packet channel's queue
    chClosed,   \* close(ch) has run
    panicked,   \* a goroutine panicked (send on closed channel, double close)
    sent,       \* every packet sent on ch, in order (history)
    input,      \* bytes of the reader's underlying stream / of the file
    rpos,       \* bytes of input consumed so far
    eofWithData,\* the io.Reader returns the last bytes together with io.EOF
    shortReads, \* the io.Reader may return fewer bytes than asked for
    rdFailAt,   \* reads that succeed before a read fails (NoFail: never)
    nReads,     \* successful reads so far
    rpc,        \* ReaderChan goroutine: position
    rpend,      \* packet ReaderChan is about to send
    rret,       \* ReaderChan returns after sending rpend
    rhash,      \* ReaderChan's sha256Hash
    rres,       \* what the read that ended ReaderChan's loop returned
    rcb,        \* times ReaderChan's cleanup callback ran
    wpc,        \* WriterChan goroutine: position
    whash,      \* WriterChan's sha256Hash
    out,        \* bytes written to WriterChan's io.Writer
    wrFailAt,   \* writes that succeed before a write fails (NoFail: never)
    nWrites,    \* successful writes so far
    okCb,       \* times WriterChan's callback ran
    errCb,      \* errors handed to WriterChan's errCallback, in order
    delivered,  \* data chunks WriterChan received, in order (history)
    gotSum,     \* checksum packets WriterChan received (history)
    tampers,    \* alterations made to packets in transit so far
    got,        \* packets the caller received from the returned channel (history)
    fdOpen,     \* local file handles opened (os.Open) and not yet closed
    tarKind,    \* RemoteTarStreamCommand: the path is a "file" or a "dir"
    recursive,  \* opts.Recursive
    tarFailAt,  \* index of the archiving step that fails locally (NoFail: none)
    apc,        \* archiving goroutine: position
    astep,      \* archiving steps completed
    pbuf,       \* io.Pipe: bytes of the Write in progress not yet read
    prClosed,   \* pipeReader.Close() has run
    pwClosed,   \* pipeWriter.Close() has run
    fstat,      \* file stream: what stat of the path finds
    brAll,      \* ByteRangeType.All
    brStart,    \* ByteRangeType.Start
    brEnd,      \* ByteRangeType.End
    fpc,        \* file stream goroutine: position
    filePos,    \* remoteStreamFileRegular: filePos
    fn,         \* remoteStreamFileRegular: n of the last fd.Read, after clipping
    ferr,       \* file stream: err of the last fd.Read / error to return
    fs,         \* destination filesystem: path -> entry
    fs0,        \* the filesystem when RemoteFileCopyCommand was called (history)
    merge,      \* opts.Merge
    overwrite,  \* opts.Overwrite
    srcIsDest,  \* srcUri resolves to destPathCleaned
    archive,    \* entries of the tar stream of the source
    cfail,      \* the operation of the copy that fails with an I/O error ("none": none)
    cpc,        \* RemoteFileCopyCommand: position
    streamOpen, \* FileStreamTarCommand was called and the pipe created
    cnext,      \* index in archive of next (the for statement's variable), 0: none
    cerr,       \* err of the for statement
    cferr,      \* err of the function body (line 287)
    cret,       \* what RemoteFileCopyCommand returned ("none": not yet)
    evals,      \* archive entries whose destination was evaluated, in order (history)
    ppc,        \* parseByteRange: position
    rangeStr,   \* parseByteRange: rangeStr
    parsed,     \* parseByteRange: the ByteRangeType and error returned
    tree,       \* the directory tree below the listed path, in walk order
    lall,       \* data.Opts.All
    loffset,    \* data.Opts.Offset
    llimit,     \* data.Opts.Limit of the request
    lfail,      \* the operation of the listing that fails ("none": none)
    lpc,        \* RemoteListEntriesCommand goroutine: position
    seen,       \* seen (line 404)
    visited,    \* walk positions the WalkDir callback was called for, in order (history)
    innerFilesEntries, \* innerFilesEntries: nodes of tree
    lidx,       \* entries of innerFilesEntries the loop of line 436 has handled
    fileInfoArr,\* fileInfoArr
    lerr,       \* the error the listing is about to send
    upc,        \* AddInt / AddIntSlice: position
    ufn,        \* the function called: "AddInt" or "AddIntSlice"
    uvals,      \* the arguments (vals)
    uidx,       \* AddIntSlice: values added so far
    urtn,       \* AddIntSlice: the running sum
    ures,       \* the value and error returned
    dparent,    \* directory stream: what filepath.Dir(path) and its stat give
    opc,        \* touch / mkdir / rename: position
    opName,     \* the operation called
    opPath,     \* its path (for rename: the old path)
    opNew,      \* rename: the new path
    opErr       \* the error returned

iovars == <<ver, ctxDone, callerCancelled, cancelledMid, ch, chClosed, panicked, sent, input, rpos,
            eofWithData, shortReads, rdFailAt, nReads, rpc, rpend, rret, rhash, rres, rcb,
            wpc, whash, out, wrFailAt, nWrites, okCb, errCb, delivered, gotSum>>

chanvars == <<ch, chClosed, panicked, sent>>
rdvars == <<rpos, nReads, rpc, rpend, rret, rhash, rres, rcb>>
wrvars == <<wpc, whash, out, nWrites, okCb, errCb, delivered, gotSum>>
cfgvars == <<ver, input, eofWithData, shortReads, rdFailAt, wrFailAt>>
ctxvars == <<ctxDone, callerCancelled, cancelledMid>>
pipevars == <<pbuf, prClosed, pwClosed>>
tarvars == <<tarKind, recursive, tarFailAt, apc, astep>>
filevars == <<fstat, brAll, brStart, brEnd, fpc, filePos, fn, ferr>>
copyvars == <<fs, fs0, merge, overwrite, srcIsDest, archive, cfail, cpc, streamOpen, cnext, cerr,
              cferr, cret, evals>>
parsevars == <<ppc, rangeStr, parsed>>
listvars == <<tree, lall, loffset, llimit, lfail, lpc, seen, visited, innerFilesEntries, lidx,
              fileInfoArr, lerr>>
addvars == <<upc, ufn, uvals, uidx, urtn, ures>>
dirvars == <<dparent>>
opvars == <<opc, opName, opPath, opNew, opErr>>
auxvars == <<parsevars, listvars, addvars, dirvars, opvars>>
restvars == <<tampers, got, fdOpen, pipevars, tarvars, filevars, copyvars, auxvars>>

vars == <<iovars, restvars>>


\* ------------------------------------------------------------ Go channel
\* ch <- p : blocks while the buffer is full, panics on a closed channel.
CanSend == chClosed \/ Len(ch) < ChanCap
ChanSend(p) ==
    IF chClosed
    THEN /\ panicked' = TRUE
         /\ UNCHANGED <<ch, chClosed, sent>>
    ELSE /\ ch' = Append(ch, p)
         /\ sent' = Append(sent, p)
         /\ UNCHANGED <<chClosed, panicked>>

\* close(ch): panics on an already closed channel.
ChanClose ==
    /\ IF chClosed THEN panicked' = TRUE ELSE panicked' = panicked
    /\ chClosed' = TRUE
    /\ UNCHANGED <<ch, sent>>

\* ------------------------------------------------------------ ReaderChan
\* ver 1 allocates buf once (part_002:25) and sends buf[:n]: a later Read writes
\* into the array that the queued packets still point to. ver 2 allocates a
\* fresh buf for every Read (wshremote.go:691).
Overwrite(old, new) ==
    [i \in 1..Len(old) |-> IF i <= Len(new) THEN new[i] ELSE old[i]]

ReadInto(q, d) ==
    [i \in 1..Len(q) |-> IF q[i].alias THEN [q[i] EXCEPT !.data = Overwrite(@, d)] ELSE q[i]]

\* The loop head: select on ctx.Done() with a default (ver 2), ctx.Err() (ver 1).
RdSelect ==
    /\ rpc = "select"
    /\ ~panicked
    /\ rpc' = IF ctxDone THEN "defer1" ELSE "read"
    /\ UNCHANGED <<rpos, nReads, rpend, rret, rhash, rres, rcb>>
    /\ UNCHANGED <<chanvars, wrvars, cfgvars, ctxvars, restvars>>

\* What ReaderChan does with the result (n = Len(d), err) of r.Read(buf).
\* ver 2: any error ends the loop, io.EOF with the checksum packet, another
\*        error with an error packet; the n bytes read with it are not looked at.
\* ver 1: io.EOF just returns; another error sends an error packet.
RdAfterReadNoHash(d, err) ==
    /\ rres' = IF err = "nil" THEN rres ELSE err
    /\ rhash' = rhash
    /\ IF err = "EOF"
       THEN IF ver = 2
            THEN /\ rpend' = ChecksumPkt(HashSum(rhash))
                 /\ rret' = TRUE
                 /\ rpc' = "send"
            ELSE /\ rpc' = "defer1"
                 /\ UNCHANGED <<rpend, rret>>
       ELSE IF err # "nil"
       THEN /\ rpend' = ErrPkt("ReaderChan: read error")
            /\ rret' = TRUE
            /\ rpc' = "send"
       ELSE /\ rpend' = DataPkt(d, ver = 1)
            /\ rret' = FALSE
            /\ rpc' = "send"

RdAfterReadChecksumOnError(d, err) ==
    /\ rres' = IF err = "nil" THEN rres ELSE err
    /\ IF err # "nil"
       THEN /\ rpend' = IF ver = 2 THEN ChecksumPkt(HashSum(rhash))
                                   ELSE ErrPkt("ReaderChan: read error")
            /\ rret' = TRUE
            /\ rpc' = "send"
            /\ rhash' = rhash
       ELSE /\ rpend' = DataPkt(d, ver = 1)
            /\ rret' = FALSE
            /\ rpc' = "send"
            /\ rhash' = IF ver = 2 THEN HashWrite(rhash, d) ELSE rhash

RdAfterRead(d, err) ==
    /\ rres' = IF err = "nil" THEN rres ELSE err
    /\ IF err = "EOF"
       THEN IF ver = 2
            THEN /\ rpend' = ChecksumPkt(HashSum(rhash))
                 /\ rret' = TRUE
                 /\ rpc' = "send"
                 /\ rhash' = rhash
            ELSE /\ rpc' = "defer1"
                 /\ UNCHANGED <<rpend, rret, rhash>>
       ELSE IF err # "nil"
       THEN /\ rpend' = ErrPkt("ReaderChan: read error")
            /\ rret' = TRUE
            /\ rpc' = "send"
            /\ rhash' = rhash
       ELSE /\ rpend' = DataPkt(d, ver = 1)
            /\ rret' = FALSE
            /\ rpc' = "send"
            /\ rhash' = IF ver = 2 THEN HashWrite(rhash, d) ELSE rhash

\* The byte counts a Read of a stream with rem bytes left may return.
ReadSizes(rem) ==
    IF shortReads THEN 1..Min(ChunkSize, rem) ELSE {Min(ChunkSize, rem)}

\* r.Read(buf) on a plain stream holding input. An io.Reader may return fewer
\* bytes than len(buf), and may return the last bytes together with io.EOF.
RdReadStream ==
    /\ rpc = "read"
    /\ apc = "idle"
    /\ ~panicked
    /\ LET rem == Len(input) - rpos
       IN  \/ /\ rdFailAt = nReads
              /\ RdAfterRead(<< >>, "error")
              /\ UNCHANGED <<rpos, nReads, ch>>
           \/ /\ rdFailAt # nReads
              /\ rem = 0
              /\ RdAfterRead(<< >>, "EOF")
              /\ UNCHANGED <<rpos, nReads, ch>>
           \/ /\ rdFailAt # nReads
              /\ rem > 0
              /\ \E n \in ReadSizes(rem) :
                    LET d == SubSeq(input, rpos + 1, rpos + n)
                    IN  /\ rpos' = rpos + n
                        /\ nReads' = nReads + 1
                        /\ ch' = ReadInto(ch, d)
                        /\ IF eofWithData /\ n = rem
                           THEN RdAfterRead(d, "EOF")
                           ELSE RdAfterRead(d, "nil")
    /\ UNCHANGED <<rcb, chClosed, panicked, sent>>
    /\ UNCHANGED <<wrvars, cfgvars, ctxvars, restvars>>

\* ch <- rpend
RdSend ==
    /\ rpc = "send"
    /\ ~panicked
    /\ CanSend
    /\ ChanSend(rpend)
    /\ rpc' = IF rret THEN "defer1" ELSE "select"
    /\ UNCHANGED <<rpos, nReads, rpend, rret, rhash, rres, rcb>>
    /\ UNCHANGED <<wrvars, cfgvars, ctxvars, restvars>>

\* The deferred function: ver 2 is close(ch); callback(), ver 1 is callback(); close(ch).
RdDeferStep(step) == IF (ver = 2) = (step = 1) THEN "close" ELSE "callback"

RdClose ==
    /\ \/ rpc = "defer1" /\ RdDeferStep(1) = "close" /\ rpc' = "defer2"
       \/ rpc = "defer2" /\ RdDeferStep(2) = "close" /\ rpc' = "done"
    /\ ~panicked
    /\ ChanClose
    /\ UNCHANGED <<rpos, nReads, rpend, rret, rhash, rres, rcb>>
    /\ UNCHANGED <<wrvars, cfgvars, ctxvars, restvars>>

\* callback() of a caller that passes a cleanup with no effect on the stream.
RdCallback ==
    /\ apc = "idle"
    /\ \/ rpc = "defer1" /\ RdDeferStep(1) = "callback" /\ rpc' = "defer2"
       \/ rpc = "defer2" /\ RdDeferStep(2) = "callback" /\ rpc' = "done"
    /\ ~panicked
    /\ rcb' = rcb + 1
    /\ UNCHANGED <<rpos, nReads, rpend, rret, rhash, rres>>
    /\ UNCHANGED <<chanvars, wrvars, cfgvars, ctxvars, restvars>>

ReaderChan == RdSelect \/ RdReadStream \/ RdSend \/ RdClose \/ RdCallback

\* ------------------------------------------------------------ WriterChan
\* bytes.Equal(localChecksum, resp.Response.Checksum)
ChecksumOkAlways(local, remote) == TRUE
ChecksumOk(local, remote) == local = remote

\* The body of "case resp, ok := <-ch" for a received packet p.
\* ver 2 (wshremote.go:728-747): error packet -> errCallback, return; hash the
\*   data; a checksum packet is compared with the local digest and ends the loop;
\*   otherwise the data is written, a write failure -> errCallback, return.
\* ver 1 (part_002:67-78): no hash; a failed write calls errCallback(resp.Error),
\*   which is nil there.
WrHandle(p) ==
    IF p.kind = "error"
    THEN /\ errCb' = Append(errCb, p.sum[1])
         /\ wpc' = "defer1"
         /\ UNCHANGED <<whash, out, nWrites, delivered, gotSum>>
    ELSE IF p.kind = "checksum"
    THEN /\ gotSum' = Append(gotSum, p.sum)
         /\ errCb' = IF ChecksumOk(HashSum(whash), p.sum)
                     THEN errCb
                     ELSE Append(errCb, "WriterChan: checksum mismatch")
         /\ wpc' = "defer1"
         /\ UNCHANGED <<whash, out, nWrites, delivered>>
    ELSE /\ delivered' = Append(delivered, p.data)
         /\ whash' = IF ver = 2 THEN HashWrite(whash, p.data) ELSE whash
         /\ gotSum' = gotSum
         /\ IF wrFailAt = nWrites
            THEN /\ errCb' = Append(errCb, IF ver = 2 THEN "WriterChan: write error" ELSE "nil")
                 /\ wpc' = "defer1"
                 /\ UNCHANGED <<out, nWrites>>
            ELSE /\ out' = out \o p.data
                 /\ nWrites' = nWrites + 1
                 /\ UNCHANGED <<errCb, wpc>>

\* select { case <-ctx.Done(): return; case resp, ok := <-ch: ... }
\* When both cases are ready Go picks either.
WrSelect ==
    /\ wpc = "select"
    /\ ~panicked
    /\ \/ /\ ctxDone
          /\ wpc' = "defer1"
          /\ UNCHANGED <<ch, whash, out, nWrites, errCb, delivered, gotSum>>
       \/ /\ ch = << >>
          /\ chClosed
          /\ wpc' = "defer1"
          /\ UNCHANGED <<ch, whash, out, nWrites, errCb, delivered, gotSum>>
       \/ /\ ch # << >>
          /\ ch' = Tail(ch)
          /\ WrHandle(Head(ch))
    /\ UNCHANGED <<okCb, chClosed, panicked, sent>>
    /\ UNCHANGED <<rdvars, cfgvars, ctxvars, restvars>>

\* The deferred function: ver 2 is drainChannel(ch); callback(), ver 1 is
\* callback(); drainChannel(ch).
WrDeferStep(step) == IF (ver = 2) = (step = 1) THEN "drain" ELSE "callback"
WrAfter(step) == IF step = 1 THEN "defer2" ELSE "done"

\* A drainChannel that returns without receiving anything.
drainChannelNoDrain(step) ==
    /\ wpc = IF step = 1 THEN "defer1" ELSE "defer2"
    /\ WrDeferStep(step) = "drain"
    /\ ~panicked
    /\ ch' = ch
    /\ wpc' = WrAfter(step)
    /\ UNCHANGED <<whash, out, nWrites, okCb, errCb, delivered, gotSum>>
    /\ UNCHANGED <<chClosed, panicked, sent>>
    /\ UNCHANGED <<rdvars, cfgvars, ctxvars, restvars>>

\* drainChannel: receives until the channel is closed and empty.
drainChannel(step) ==
    /\ wpc = IF step = 1 THEN "defer1" ELSE "defer2"
    /\ WrDeferStep(step) = "drain"
    /\ ~panicked
    /\ \/ /\ ch # << >>
          /\ ch' = Tail(ch)
          /\ wpc' = wpc
       \/ /\ ch = << >>
          /\ chClosed
          /\ ch' = ch
          /\ wpc' = WrAfter(step)
    /\ UNCHANGED <<whash, out, nWrites, okCb, errCb, delivered, gotSum>>
    /\ UNCHANGED <<chClosed, panicked, sent>>
    /\ UNCHANGED <<rdvars, cfgvars, ctxvars, restvars>>

WrCallback(step) ==
    /\ wpc = IF step = 1 THEN "defer1" ELSE "defer2"
    /\ WrDeferStep(step) = "callback"
    /\ ~panicked
    /\ okCb' = okCb + 1
    /\ wpc' = WrAfter(step)
    /\ UNCHANGED <<whash, out, nWrites, errCb, delivered, gotSum>>
    /\ UNCHANGED <<chanvars, rdvars, cfgvars, ctxvars, restvars>>

WrDrain == \E step \in {1, 2} : drainChannel(step)
WrDone == \E step \in {1, 2} : WrCallback(step)

WriterChan == WrSelect \/ WrDrain \/ WrDone

\* ------------------------------------------------------------ the context
\* Where a file stream with this byte range stops reading.
FileEnd == IF brAll THEN Len(input) ELSE Min(brEnd, Len(input))

\* The producer is mid-stream: it has sent a data chunk and has data left to read.
MidStream ==
    /\ SelectKind(sent, "data") # << >>
    /\ \/ fpc \in {"loop", "read", "senddata", "check"} /\ filePos < FileEnd
       \/ fpc = "idle" /\ apc = "idle" /\ rpc \in {"select", "read", "send"} /\ rpos < Len(input)

\* The caller cancels the context.
Cancel ==
    /\ ~ctxDone
    /\ ~panicked
    /\ ctxDone' = TRUE
    /\ callerCancelled' = TRUE
    /\ cancelledMid' = MidStream
    /\ UNCHANGED <<chanvars, rdvars, wrvars, cfgvars, restvars>>

\* ---------------------------------------------------- reader -> writer
\* ReaderChan over a stream, its channel handed to WriterChan.
FailChoices == {NoFail} \cup 0..MaxFailAt

\* The destination of a copy: destPathCleaned and the paths below it.
Root == << >>
Paths == {Root, <<"a">>, <<"b">>, <<"a", "x">>}

NoEntry == [kind |-> "none", data |-> << >>, mode |-> 0]

\* No copy is running.
CopyIdle ==
    /\ fs = [p \in Paths |-> NoEntry]
    /\ fs0 = fs
    /\ merge = FALSE
    /\ overwrite = FALSE
    /\ srcIsDest = FALSE
    /\ archive = << >>
    /\ cfail = "none"
    /\ cpc = "idle"
    /\ streamOpen = FALSE
    /\ cnext = 0
    /\ cerr = "nil"
    /\ cferr = "nil"
    /\ cret = "none"
    /\ evals = << >>

\* RemoteListEntriesCommand is not running.
ListIdle ==
    /\ tree = << >>
    /\ lall = FALSE
    /\ loffset = 0
    /\ llimit = 0
    /\ lfail = "none"
    /\ lpc = "idle"
    /\ seen = 0
    /\ visited = << >>
    /\ innerFilesEntries = << >>
    /\ lidx = 0
    /\ fileInfoArr = << >>
    /\ lerr = "nil"

\* parseByteRange is not being called.
ParseIdle ==
    /\ ppc = "idle"
    /\ rangeStr = << >>
    /\ parsed = [all |-> FALSE, start |-> 0, end |-> 0, err |-> "nil"]

\* AddInt / AddIntSlice is not being called.
AddIdle ==
    /\ upc = "idle"
    /\ ufn = "AddInt"
    /\ uvals = << >>
    /\ uidx = 0
    /\ urtn = 0
    /\ ures = [val |-> 0, err |-> "nil"]

\* No directory stream and no touch, mkdir or rename is running.
OpIdle ==
    /\ dparent = "same"
    /\ opc = "idle"
    /\ opName = "touch"
    /\ opPath = << >>
    /\ opNew = << >>
    /\ opErr = "nil"

\* No helper function and no listing is running.
AuxIdle ==
    /\ ParseIdle
    /\ ListIdle
    /\ AddIdle
    /\ OpIdle

\* The goroutines and handles of the operations that are not running.
RestIdle ==
    /\ tampers = 0
    /\ got = << >>
    /\ fdOpen = 0
    /\ pbuf = << >>
    /\ prClosed = FALSE
    /\ pwClosed = FALSE
    /\ tarKind = "file"
    /\ recursive = FALSE
    /\ tarFailAt = NoFail
    /\ apc = "idle"
    /\ astep = 0
    /\ fstat = "regular"
    /\ brAll = TRUE
    /\ brStart = 0
    /\ brEnd = 0
    /\ fpc = "idle"
    /\ filePos = 0
    /\ fn = 0
    /\ ferr = "nil"

InitIO ==
    /\ RestIdle
    /\ CopyIdle
    /\ AuxIdle
    /\ ver \in {1, 2}
    /\ input \in Inputs
    /\ eofWithData \in BOOLEAN
    /\ shortReads \in BOOLEAN
    /\ rdFailAt \in FailChoices
    /\ wrFailAt \in FailChoices
    \* the long input is streamed by ver 2, full reads, no I/O failure
    /\ Len(input) > MaxLen =>
          (ver = 2 /\ ~shortReads /\ rdFailAt = NoFail /\ wrFailAt = NoFail)
    /\ ctxDone = FALSE
    /\ callerCancelled = FALSE
    /\ cancelledMid = FALSE
    /\ ch = << >>
    /\ chClosed = FALSE
    /\ panicked = FALSE
    /\ sent = << >>
    /\ rpos = 0
    /\ nReads = 0
    /\ rpc = "select"
    /\ rpend = NoPkt
    /\ rret = FALSE
    /\ rhash = HashNew
    /\ rres = "nil"
    /\ rcb = 0
    /\ wpc = "select"
    /\ whash = HashNew
    /\ out = << >>
    /\ nWrites = 0
    /\ okCb = 0
    /\ errCb = << >>
    /\ delivered = << >>
    /\ gotSum = << >>

NextIO ==
    \/ ReaderChan
    \/ WriterChan
    \/ Cancel

SpecIO == InitIO /\ [][NextIO]_vars

\* ReaderChan and WriterChan are goroutines: the Go scheduler runs each of them
\* whenever it can take a step.  The caller's cancellation is not forced.
\* Draining does not depend on the bytes carried: the streams are runs of zeros.
InitDrain ==
    /\ InitIO
    /\ Len(input) <= MaxLen
    /\ \A i \in 1..Len(input) : input[i] = 0
    /\ ~eofWithData

SpecDrain == InitDrain /\ [][NextIO]_vars /\ WF_vars(ReaderChan) /\ WF_vars(WriterChan)


\* ------------------------------------------- packets altered in transit
\* The transport between ReaderChan and WriterChan alters the queued data
\* packets: one byte of a chunk changed, a chunk dropped, duplicated, or two
\* neighbouring chunks exchanged. Checksum and error packets are left alone.
RemoveAt(q, i) == SubSeq(q, 1, i - 1) \o SubSeq(q, i + 1, Len(q))
InsertAt(q, i, p) == SubSeq(q, 1, i) \o <<p>> \o SubSeq(q, i + 1, Len(q))
DataAt(q) == {i \in 1..Len(q) : q[i].kind = "data"}

TamperFrame ==
    /\ tampers < MaxTamper
    /\ wpc = "select"
    /\ ~panicked
    /\ tampers' = tampers + 1
    /\ UNCHANGED <<chClosed, panicked, sent, rdvars, wrvars, cfgvars, ctxvars>>
    /\ UNCHANGED <<got, fdOpen, pipevars, tarvars, filevars, copyvars, auxvars>>

TamperAlter ==
    /\ TamperFrame
    /\ \E i \in DataAt(ch) : \E j \in 1..Len(ch[i].data) : \E b \in Bytes \ {ch[i].data[j]} :
          ch' = [ch EXCEPT ![i].data[j] = b]

TamperDrop ==
    /\ TamperFrame
    /\ \E i \in DataAt(ch) : ch' = RemoveAt(ch, i)

TamperDup ==
    /\ TamperFrame
    /\ Len(ch) < ChanCap
    /\ \E i \in DataAt(ch) : ch' = InsertAt(ch, i, ch[i])

TamperSwap ==
    /\ TamperFrame
    /\ \E i \in DataAt(ch) :
          /\ i + 1 \in DataAt(ch)
          /\ ch' = [ch EXCEPT ![i] = ch[i + 1], ![i + 1] = ch[i]]

InitTamper ==
    /\ InitIO
    /\ ver = 2
    /\ Len(input) <= MaxLen
    /\ rdFailAt = NoFail
    /\ wrFailAt = NoFail

NextTamper ==
    \/ ReaderChan
    \/ WriterChan
    \/ Cancel
    \/ TamperAlter
    \/ TamperDrop
    \/ TamperDup
    \/ TamperSwap

SpecTamper == InitTamper /\ [][NextTamper]_vars


\* ------------------------------------------------ RemoteTarStreamCommand
\* The archiving goroutine (wshremote.go:231-274) writes the archive into an
\* io.Pipe through tarWriter; ReaderChan reads the other end of the pipe into
\* the returned channel rtn (ch here). Both goroutines hold rtn.
\*
\* The archive of a path, as the sequence of the archiving goroutine's steps:
\* for a regular file the header block (WriteHeader), os.Open of the file, then
\* the content in blocks (file.WriteTo); for a directory tree (AddFS) header and
\* content blocks, AddFS closing the files it opens itself.
RECURSIVE Blocks(_)
Blocks(bytes) ==
    IF bytes = << >> THEN << >>
    ELSE LET n == Min(TarBlockSize, Len(bytes))
         IN  <<[op |-> "write", data |-> SubSeq(bytes, 1, n)]>>
                 \o Blocks(SubSeq(bytes, n + 1, Len(bytes)))

HeaderBlock == [op |-> "write", data |-> <<1, 0>>]
OpenStep == [op |-> "open", data |-> << >>]

TarSteps ==
    IF tarKind = "file"
    THEN <<HeaderBlock, OpenStep>> \o Blocks(input)
    ELSE <<HeaderBlock>> \o Blocks(input)

\* All bytes of the archive the steps write.
RECURSIVE StepBytes(_)
StepBytes(steps) ==
    IF steps = << >> THEN << >> ELSE Head(steps).data \o StepBytes(Tail(steps))

\* io.Pipe: once either end is closed, Read and Write return an error.
PipeDone == prClosed \/ pwClosed

\* The goroutine starts: a directory needs opts.Recursive (line 235).
TarStart ==
    /\ apc = "start"
    /\ ~panicked
    /\ apc' = IF tarKind = "dir" /\ ~recursive THEN "senderr" ELSE "next"
    /\ UNCHANGED <<tarKind, recursive, tarFailAt, astep>>
    /\ UNCHANGED <<iovars, tampers, got, fdOpen, pipevars, filevars, copyvars, auxvars>>

\* The next archiving step: a local failure (FileInfoHeader, os.Open, reading
\* the source), os.Open of the file, or a Write of a block into the pipe, which
\* fails at once when the pipe is closed. After the last step the goroutine
\* returns; nothing here closes tarWriter, pipeWriter or the opened file.
TarNext ==
    /\ apc = "next"
    /\ ~panicked
    /\ IF astep = Len(TarSteps)
       THEN /\ apc' = "cancel"
            /\ UNCHANGED <<astep, pbuf, fdOpen>>
       ELSE IF astep = tarFailAt
       THEN /\ apc' = "senderr"
            /\ UNCHANGED <<astep, pbuf, fdOpen>>
       ELSE IF TarSteps[astep + 1].op = "open"
       THEN /\ fdOpen' = fdOpen + 1
            /\ astep' = astep + 1
            /\ UNCHANGED <<apc, pbuf>>
       ELSE IF PipeDone
       THEN /\ apc' = "senderr"
            /\ UNCHANGED <<astep, pbuf, fdOpen>>
       ELSE /\ pbuf' = TarSteps[astep + 1].data
            /\ apc' = "write"
            /\ UNCHANGED <<astep, fdOpen>>
    /\ UNCHANGED <<tarKind, recursive, tarFailAt, prClosed, pwClosed>>
    /\ UNCHANGED <<iovars, tampers, got, filevars, copyvars, auxvars>>

\* The pipe Write in progress returns: all its bytes were read, or the pipe
\* was closed under it (io.ErrClosedPipe).
TarWriteReturn ==
    /\ apc = "write"
    /\ ~panicked
    /\ \/ /\ pbuf = << >>
          /\ ~PipeDone
          /\ astep' = astep + 1
          /\ apc' = "next"
          /\ pbuf' = pbuf
       \/ /\ PipeDone
          /\ apc' = "senderr"
          /\ pbuf' = << >>
          /\ astep' = astep
    /\ UNCHANGED <<tarKind, recursive, tarFailAt, prClosed, pwClosed>>
    /\ UNCHANGED <<iovars, tampers, got, fdOpen, filevars, copyvars, auxvars>>

\* rtn <- wshutil.RespErr(...), then the goroutine ends (return, or the end of
\* the function after line 245).
TarSendErr ==
    /\ apc = "senderr"
    /\ ~panicked
    /\ CanSend
    /\ ChanSend(ErrPkt("cannot create tar stream"))
    /\ apc' = "cancel"
    /\ UNCHANGED <<tarKind, recursive, tarFailAt, astep>>
    /\ UNCHANGED <<ver, ctxvars, input, rdvars, wrvars, eofWithData, shortReads, rdFailAt, wrFailAt>>
    /\ UNCHANGED <<tampers, got, fdOpen, pipevars, filevars, copyvars, auxvars>>

\* defer cancel(): cancels iochanCtx, the context of ReaderChan.
TarCancel ==
    /\ apc = "cancel"
    /\ ~panicked
    /\ ctxDone' = TRUE
    /\ apc' = "done"
    /\ UNCHANGED <<tarKind, recursive, tarFailAt, astep, callerCancelled, cancelledMid>>
    /\ UNCHANGED <<chanvars, rdvars, wrvars, cfgvars>>
    /\ UNCHANGED <<tampers, got, fdOpen, pipevars, filevars, copyvars, auxvars>>

\* ReaderChan's r.Read(buf) on pipeReader: blocks until a Write is in progress
\* or the pipe is closed; copies at most len(buf) bytes of the Write.
RdReadPipe ==
    /\ rpc = "read"
    /\ apc # "idle"
    /\ ~panicked
    /\ \/ /\ PipeDone
          /\ RdAfterRead(<< >>, IF prClosed THEN "error" ELSE "EOF")
          /\ UNCHANGED <<pbuf, nReads, ch>>
       \/ /\ ~PipeDone
          /\ apc = "write"
          /\ pbuf # << >>
          /\ LET n == Min(ChunkSize, Len(pbuf))
             IN  /\ pbuf' = SubSeq(pbuf, n + 1, Len(pbuf))
                 /\ nReads' = nReads + 1
                 /\ ch' = ReadInto(ch, SubSeq(pbuf, 1, n))
                 /\ RdAfterRead(SubSeq(pbuf, 1, n), "nil")
    /\ UNCHANGED <<rpos, rcb, chClosed, panicked, sent, wrvars, cfgvars, ctxvars>>
    /\ UNCHANGED <<tampers, got, fdOpen, prClosed, pwClosed, tarvars, filevars, copyvars, auxvars>>

\* The cleanup passed to ReaderChan (lines 226-230): pipeReader.Close(),
\* pipeWriter.Close(), tarWriter.Close().
RdCallbackTar ==
    /\ apc # "idle"
    /\ \/ rpc = "defer1" /\ RdDeferStep(1) = "callback" /\ rpc' = "defer2"
       \/ rpc = "defer2" /\ RdDeferStep(2) = "callback" /\ rpc' = "done"
    /\ ~panicked
    /\ rcb' = rcb + 1
    /\ prClosed' = TRUE
    /\ pwClosed' = TRUE
    /\ UNCHANGED <<rpos, nReads, rpend, rret, rhash, rres>>
    /\ UNCHANGED <<chanvars, wrvars, cfgvars, ctxvars>>
    /\ UNCHANGED <<tampers, got, fdOpen, pbuf, tarvars, filevars, copyvars, auxvars>>

\* The caller of the command receives from the returned channel.
Recv ==
    /\ ch # << >>
    /\ wpc = "idle"
    /\ ~panicked
    /\ got' = Append(got, Head(ch))
    /\ ch' = Tail(ch)
    /\ UNCHANGED <<chClosed, panicked, sent, rdvars, wrvars, cfgvars, ctxvars>>
    /\ UNCHANGED <<tampers, fdOpen, pipevars, tarvars, filevars, copyvars, auxvars>>

InitTar ==
    /\ CopyIdle
    /\ AuxIdle
    /\ ver \in {1, 2}
    /\ input \in SeqsUpTo(MaxLen)
    /\ eofWithData = FALSE
    /\ shortReads = FALSE
    /\ rdFailAt = NoFail
    /\ wrFailAt = NoFail
    /\ ctxDone = FALSE
    /\ callerCancelled = FALSE
    /\ cancelledMid = FALSE
    /\ ch = << >>
    /\ chClosed = FALSE
    /\ panicked = FALSE
    /\ sent = << >>
    /\ rpos = 0
    /\ nReads = 0
    /\ rpc = "select"
    /\ rpend = NoPkt
    /\ rret = FALSE
    /\ rhash = HashNew
    /\ rres = "nil"
    /\ rcb = 0
    /\ wpc = "idle"
    /\ whash = HashNew
    /\ out = << >>
    /\ nWrites = 0
    /\ okCb = 0
    /\ errCb = << >>
    /\ delivered = << >>
    /\ gotSum = << >>
    /\ tampers = 0
    /\ got = << >>
    /\ fdOpen = 0
    /\ pbuf = << >>
    /\ prClosed = FALSE
    /\ pwClosed = FALSE
    /\ tarKind \in {"file", "dir"}
    /\ recursive \in BOOLEAN
    /\ tarFailAt \in {NoFail} \cup 0..(MaxFailAt + 2)
    /\ apc = "start"
    /\ astep = 0
    /\ fstat = "regular"
    /\ brAll = TRUE
    /\ brStart = 0
    /\ brEnd = 0
    /\ fpc = "idle"
    /\ filePos = 0
    /\ fn = 0
    /\ ferr = "nil"

NextTar ==
    \/ TarStart
    \/ TarNext
    \/ TarWriteReturn
    \/ TarSendErr
    \/ TarCancel
    \/ RdSelect
    \/ RdReadPipe
    \/ RdSend
    \/ RdClose
    \/ RdCallbackTar
    \/ Recv
    \/ Cancel

SpecTar == InitTar /\ [][NextTar]_vars


\* ----------------------------------------------- RemoteStreamFileCommand
\* The goroutine of RemoteStreamFileCommand (wshremote.go:185-206) runs
\* remoteStreamFileInternal; every dataCallback is a send on ch, an error
\* returned is sent as the last packet, and the deferred close(ch) ends it.
\* wshrpc.MaxFileSize, scaled to the model's inputs.
MaxFileSize == MaxLen

\* wshrpc.FileData: Info (a stat record), or Data64 with At{Offset, Size}.
InfoPkt(nf) == [kind |-> "info", data |-> << >>, sum |-> << >>, alias |-> FALSE,
                notfound |-> nf, off |-> 0, size |-> 0]
FileDataPkt(d) == [kind |-> "data", data |-> d, sum |-> << >>, alias |-> FALSE,
                   notfound |-> FALSE, off |-> brStart, size |-> Len(d)]

\* What os.Stat finds at the path: a regular file (that os.Open can read or
\* not), nothing (os.IsNotExist), or an error of another kind.
StatResults == {"regular", "unreadable", "notfound", "staterr"}

\* fileInfoInternal with a missing path reported as an error.
fileInfoInternalErr(st) ==
    IF st \in {"notfound", "staterr"}
    THEN [found |-> FALSE, notfound |-> FALSE, err |-> "cannot stat file"]
    ELSE [found |-> TRUE, notfound |-> FALSE, err |-> "nil"]

\* fileInfoInternal (lines 522-542): a missing path is a record with NotFound
\* set and a nil error; any other failure of os.Stat is an error.
fileInfoInternal(st) ==
    IF st = "notfound" THEN [found |-> TRUE, notfound |-> TRUE, err |-> "nil"]
    ELSE IF st = "staterr" THEN [found |-> FALSE, notfound |-> FALSE, err |-> "cannot stat file"]
    ELSE [found |-> TRUE, notfound |-> FALSE, err |-> "nil"]

\* remoteStreamFileInternal up to the first dataCallback (lines 157-169):
\* the stat record is sent first, for a missing path too; an error of
\* fileInfoInternal is returned with nothing sent.
FsStat ==
    /\ fpc = "start"
    /\ ~panicked
    /\ LET finfo == fileInfoInternal(fstat)
       IN  IF finfo.err # "nil"
           THEN /\ ferr' = "cannot stat file"
                /\ fpc' = "ret"
                /\ UNCHANGED chanvars
           ELSE /\ CanSend
                /\ ChanSend(InfoPkt(finfo.notfound))
                /\ fpc' = "stated"
                /\ ferr' = ferr
    /\ UNCHANGED <<fstat, brAll, brStart, brEnd, filePos, fn>>
    /\ UNCHANGED <<rdvars, wrvars, cfgvars, ctxvars>>
    /\ UNCHANGED <<tampers, got, fdOpen, pipevars, tarvars, copyvars, auxvars>>

\* FsOpen without the size check of line 173.
FsOpenAnySize ==
    /\ fpc = "stated"
    /\ ~panicked
    /\ IF fstat = "notfound"
       THEN /\ fpc' = "ret"
            /\ UNCHANGED <<ferr, fdOpen, filePos>>
       ELSE IF FALSE
       THEN /\ ferr' = "file is too large to read"
            /\ fpc' = "ret"
            /\ UNCHANGED <<fdOpen, filePos>>
       ELSE IF fstat = "unreadable"
       THEN /\ ferr' = "cannot open file"
            /\ fpc' = "ret"
            /\ UNCHANGED <<fdOpen, filePos>>
       ELSE /\ fdOpen' = fdOpen + 1
            /\ filePos' = IF ~brAll /\ brStart > 0 THEN brStart ELSE 0
            /\ fpc' = "loop"
            /\ ferr' = ferr
    /\ UNCHANGED <<fstat, brAll, brStart, brEnd, fn>>
    /\ UNCHANGED <<chanvars, rdvars, wrvars, cfgvars, ctxvars>>
    /\ UNCHANGED <<tampers, got, pipevars, tarvars, copyvars, auxvars>>

\* Lines 170-180 and os.Open / Seek of remoteStreamFileRegular (117-129).
FsOpen ==
    /\ fpc = "stated"
    /\ ~panicked
    /\ IF fstat = "notfound"
       THEN /\ fpc' = "ret"
            /\ UNCHANGED <<ferr, fdOpen, filePos>>
       ELSE IF Len(input) > MaxFileSize
       THEN /\ ferr' = "file is too large to read"
            /\ fpc' = "ret"
            /\ UNCHANGED <<fdOpen, filePos>>
       ELSE IF fstat = "unreadable"
       THEN /\ ferr' = "cannot open file"
            /\ fpc' = "ret"
            /\ UNCHANGED <<fdOpen, filePos>>
       ELSE /\ fdOpen' = fdOpen + 1
            /\ filePos' = IF ~brAll /\ brStart > 0 THEN brStart ELSE 0
            /\ fpc' = "loop"
            /\ ferr' = ferr
    /\ UNCHANGED <<fstat, brAll, brStart, brEnd, fn>>
    /\ UNCHANGED <<chanvars, rdvars, wrvars, cfgvars, ctxvars>>
    /\ UNCHANGED <<tampers, got, pipevars, tarvars, copyvars, auxvars>>

\* The loop head (lines 132-134): a cancelled context is returned as the error.
FsLoop ==
    /\ fpc = "loop"
    /\ ~panicked
    /\ IF ctxDone
       THEN /\ ferr' = "context canceled"
            /\ fpc' = "close-fd"
       ELSE /\ ferr' = ferr
            /\ fpc' = "read"
    /\ UNCHANGED <<fstat, brAll, brStart, brEnd, filePos, fn>>
    /\ UNCHANGED <<chanvars, rdvars, wrvars, cfgvars, ctxvars>>
    /\ UNCHANGED <<tampers, got, fdOpen, pipevars, tarvars, copyvars, auxvars>>

\* n without the cut of lines 137-139.
ClipNone(n) == n

\* n after lines 137-139: a read that passes byteRange.End is cut at End.
Clip(n) == IF ~brAll /\ filePos + n > brEnd THEN brEnd - filePos ELSE n

\* fd.Read(buf) and lines 136-141: the bytes read, cut at the end of the
\* range, are handed to dataCallback.
FsRead ==
    /\ fpc = "read"
    /\ ~panicked
    /\ LET rem == IF filePos < Len(input) THEN Len(input) - filePos ELSE 0
       IN  \/ /\ rdFailAt = nReads
              /\ ferr' = "reading file"
              /\ fn' = 0
              /\ fpc' = "check"
              /\ UNCHANGED <<filePos, nReads, rpend>>
           \/ /\ rdFailAt # nReads
              /\ rem = 0
              /\ ferr' = "EOF"
              /\ fn' = 0
              /\ fpc' = "check"
              /\ UNCHANGED <<filePos, nReads, rpend>>
           \/ /\ rdFailAt # nReads
              /\ rem > 0
              /\ \E n \in ReadSizes(rem) :
                    /\ fn' = Clip(n)
                    /\ filePos' = filePos + Clip(n)
                    /\ rpend' = FileDataPkt(SubSeq(input, filePos + 1, filePos + Clip(n)))
                    /\ nReads' = nReads + 1
                    /\ ferr' = "nil"
                    /\ fpc' = "senddata"
    /\ UNCHANGED <<fstat, brAll, brStart, brEnd>>
    /\ UNCHANGED <<rpos, rpc, rret, rhash, rres, rcb>>
    /\ UNCHANGED <<chanvars, wrvars, cfgvars, ctxvars>>
    /\ UNCHANGED <<tampers, got, fdOpen, pipevars, tarvars, copyvars, auxvars>>

\* dataCallback(nil, buf[:n], byteRange): ch <- Response (line 201).
FsSend ==
    /\ fpc = "senddata"
    /\ ~panicked
    /\ CanSend
    /\ ChanSend(rpend)
    /\ fpc' = "check"
    /\ UNCHANGED <<fstat, brAll, brStart, brEnd, filePos, fn, ferr>>
    /\ UNCHANGED <<rdvars, wrvars, cfgvars, ctxvars>>
    /\ UNCHANGED <<tampers, got, fdOpen, pipevars, tarvars, copyvars, auxvars>>

\* Lines 143-151: stop at the end of the range, at io.EOF, or on a read error.
FsCheck ==
    /\ fpc = "check"
    /\ ~panicked
    /\ IF ~brAll /\ filePos >= brEnd
       THEN /\ ferr' = "nil"
            /\ fpc' = "close-fd"
       ELSE IF ferr = "EOF"
       THEN /\ ferr' = "nil"
            /\ fpc' = "close-fd"
       ELSE IF ferr # "nil"
       THEN /\ ferr' = ferr
            /\ fpc' = "close-fd"
       ELSE /\ ferr' = ferr
            /\ fpc' = "loop"
    /\ UNCHANGED <<fstat, brAll, brStart, brEnd, filePos, fn>>
    /\ UNCHANGED <<chanvars, rdvars, wrvars, cfgvars, ctxvars>>
    /\ UNCHANGED <<tampers, got, fdOpen, pipevars, tarvars, copyvars, auxvars>>

\* defer fd.Close() (line 121).
FsCloseFd ==
    /\ fpc = "close-fd"
    /\ ~panicked
    /\ fdOpen' = fdOpen - 1
    /\ fpc' = "ret"
    /\ UNCHANGED <<fstat, brAll, brStart, brEnd, filePos, fn, ferr>>
    /\ UNCHANGED <<chanvars, rdvars, wrvars, cfgvars, ctxvars>>
    /\ UNCHANGED <<tampers, got, pipevars, tarvars, copyvars, auxvars>>

\* Lines 203-205: an error returned by remoteStreamFileInternal is sent.
FsSendErr ==
    /\ fpc = "ret"
    /\ ferr # "nil"
    /\ ~panicked
    /\ CanSend
    /\ ChanSend(ErrPkt(ferr))
    /\ fpc' = "close"
    /\ UNCHANGED <<fstat, brAll, brStart, brEnd, filePos, fn, ferr>>
    /\ UNCHANGED <<rdvars, wrvars, cfgvars, ctxvars>>
    /\ UNCHANGED <<tampers, got, fdOpen, pipevars, tarvars, copyvars, auxvars>>

\* defer close(ch) (line 186).
FsClose ==
    /\ \/ fpc = "ret" /\ ferr = "nil"
       \/ fpc = "close"
    /\ ~panicked
    /\ ChanClose
    /\ fpc' = "done"
    /\ UNCHANGED <<fstat, brAll, brStart, brEnd, filePos, fn, ferr>>
    /\ UNCHANGED <<rdvars, wrvars, cfgvars, ctxvars>>
    /\ UNCHANGED <<tampers, got, fdOpen, pipevars, tarvars, copyvars, auxvars>>

\* The byte ranges parseByteRange returns: whole file, or 0 <= Start <= End.
ByteRanges ==
    {[all |-> TRUE, start |-> 0, end |-> 0]}
        \cup {[all |-> FALSE, start |-> a, end |-> b] : a \in 0..(MaxLen + 1), b \in 0..(MaxLen + 1)}

InitFile ==
    /\ CopyIdle
    /\ AuxIdle
    /\ ver = 2
    /\ input \in Inputs
    /\ eofWithData = FALSE
    /\ shortReads \in BOOLEAN
    /\ rdFailAt \in FailChoices
    /\ wrFailAt = NoFail
    /\ ctxDone = FALSE
    /\ callerCancelled = FALSE
    /\ cancelledMid = FALSE
    /\ ch = << >>
    /\ chClosed = FALSE
    /\ panicked = FALSE
    /\ sent = << >>
    /\ rpos = 0
    /\ nReads = 0
    /\ rpc = "idle"
    /\ rpend = NoPkt
    /\ rret = FALSE
    /\ rhash = HashNew
    /\ rres = "nil"
    /\ rcb = 0
    /\ wpc = "idle"
    /\ whash = HashNew
    /\ out = << >>
    /\ nWrites = 0
    /\ okCb = 0
    /\ errCb = << >>
    /\ delivered = << >>
    /\ gotSum = << >>
    /\ tampers = 0
    /\ got = << >>
    /\ fdOpen = 0
    /\ pbuf = << >>
    /\ prClosed = FALSE
    /\ pwClosed = FALSE
    /\ tarKind = "file"
    /\ recursive = FALSE
    /\ tarFailAt = NoFail
    /\ apc = "idle"
    /\ astep = 0
    /\ fstat \in StatResults
    /\ \E r \in ByteRanges :
          /\ r.start <= r.end
          /\ brAll = r.all
          /\ brStart = r.start
          /\ brEnd = r.end
    /\ fpc = "start"
    /\ filePos = 0
    /\ fn = 0
    /\ ferr = "nil"

NextFile ==
    \/ FsStat
    \/ FsOpen
    \/ FsLoop
    \/ FsRead
    \/ FsSend
    \/ FsCheck
    \/ FsCloseFd
    \/ FsSendErr
    \/ FsClose
    \/ Recv
    \/ Cancel

SpecFile == InitFile /\ [][NextFile]_vars


\* ------------------------------------------------- RemoteFileCopyCommand
\* wshremote.go:279-392.  The destination filesystem is a tree below
\* destPathCleaned (Root); the directory holding Root always exists.
MaxEntries == 2
MaxEvals == 3

\* q is p or lies below p
IsUnder(q, p) == Len(q) >= Len(p) /\ SubSeq(q, 1, Len(p)) = p
Ancestors(p) == {q \in Paths : Len(q) < Len(p) /\ IsUnder(p, q)}

\* stand-ins for permission bits: os.Create uses 0666
CreateMode == 6

DirEntry(m) == [kind |-> "dir", data |-> << >>, mode |-> m]
FileEntry(d, m) == [kind |-> "file", data |-> d, mode |-> m]

\* the trees a filesystem can hold: an entry exists only inside a directory
FsStates ==
    {f \in [Paths -> {NoEntry, DirEntry(7), FileEntry(<<0>>, 6)}] :
        \A p \in Paths : f[p].kind # "none" => \A q \in Ancestors(p) : f[q].kind = "dir"}

\* os.Stat: ENOTDIR when a component of the path is a file, ENOENT when the
\* entry is missing; only ENOENT satisfies os.IsNotExist.
Stat(f, p) ==
    IF \E q \in Ancestors(p) : f[q].kind = "file" THEN "enotdir"
    ELSE IF f[p].kind = "none" THEN "notexist"
    ELSE "ok"

HasChildren(f, p) == \E q \in Paths : q # p /\ IsUnder(q, p) /\ f[q].kind # "none"

\* os.Remove: removes a file or an empty directory
RemoveOk(f, p) == f[p].kind # "none" /\ ~(f[p].kind = "dir" /\ HasChildren(f, p))
Remove(f, p) == [f EXCEPT ![p] = NoEntry]

\* os.RemoveAll: removes the entry and everything below it
RemoveAll(f, p) == [q \in Paths |-> IF IsUnder(q, p) THEN NoEntry ELSE f[q]]

\* os.MkdirAll: creates the directory and the missing parents
MkdirAllOk(f, p) == \A q \in Ancestors(p) \cup {p} : f[q].kind # "file"
MkdirAll(f, p, m) ==
    [q \in Paths |-> IF q \in Ancestors(p) \cup {p} /\ f[q].kind = "none"
                     THEN DirEntry(m) ELSE f[q]]

\* os.Create: the parent must be a directory; a new file is empty
CreateOk(f, p) == (\A q \in Ancestors(p) : f[q].kind = "dir") /\ f[p].kind # "dir"
Create(f, p) ==
    [f EXCEPT ![p] = FileEntry(<< >>, IF f[p].kind = "file" THEN f[p].mode ELSE CreateMode)]

\* tar entries: next.Name relative to the destination, finfo.IsDir(), the
\* payload, finfo.Mode()
Entries ==
    {[name |-> n, isDir |-> d, data |-> IF d THEN << >> ELSE <<1>>, mode |-> IF d THEN 7 ELSE 4] :
        n \in Paths \ {Root}, d \in BOOLEAN}

RECURSIVE ArchivesUpTo(_)
ArchivesUpTo(n) ==
    IF n = 0 THEN {<< >>}
    ELSE LET shorter == ArchivesUpTo(n - 1)
         IN  shorter \cup
             {Append(s, e) : s \in {t \in shorter : Len(t) = n - 1}, e \in Entries}

\* one header per path
Archives ==
    {s \in ArchivesUpTo(MaxEntries) :
        \A i, j \in 1..Len(s) : s[i].name = s[j].name => i = j}

CopyFailures == {"none", "next", "stat", "remove", "create", "write"}

\* nextPath := filepath.Clean(filepath.Join(destPathCleaned, next.Name))
NextPath == archive[cnext].name
Finfo == archive[cnext]

CopyFrame == UNCHANGED <<iovars, tampers, got, pipevars, tarvars, filevars, auxvars,
                         fs0, merge, overwrite, srcIsDest, archive, cfail>>

\* return err
CpReturn(e) == cret' = e /\ cpc' = "done"

\* A rejection that has already removed the destination.
CpRejectAfterRemove(e) == CpReturn(e) /\ fs' = RemoveAll(fs, Root)

\* lines 291, 300, 305: the destination check rejects the request
CpReject(e) == CpReturn(e) /\ fs' = fs

\* lines 286-313: the top-level destination check
CpPrecheck ==
    /\ cpc = "start"
    /\ cferr' = IF Stat(fs, Root) = "ok" THEN "nil" ELSE "notexist"
    /\ IF Stat(fs, Root) # "ok"
       THEN /\ cpc' = "open"
            /\ UNCHANGED <<fs, cret>>
       ELSE IF fs[Root].kind = "dir"
       THEN IF ~recursive
            THEN CpReject("destination is a directory, use recursive option")
            ELSE IF merge
            THEN /\ cpc' = "open"
                 /\ UNCHANGED <<fs, cret>>
            ELSE IF ~overwrite
            THEN CpReject("destination is a directory, use overwrite option")
            ELSE IF cfail = "remove"
            THEN /\ CpReturn("cannot remove directory")
                 /\ fs' = fs
            ELSE /\ fs' = RemoveAll(fs, Root)
                 /\ cpc' = "open"
                 /\ cret' = cret
       ELSE IF ~overwrite
            THEN CpReject("destination already exists, use overwrite option")
            ELSE IF cfail = "remove"
            THEN /\ CpReturn("cannot remove file")
                 /\ fs' = fs
            ELSE /\ fs' = Remove(fs, Root)
                 /\ cpc' = "open"
                 /\ cret' = cret
    /\ UNCHANGED <<fdOpen, streamOpen, cnext, cerr, evals>>
    /\ CopyFrame

\* lines 314-321: the tar stream of the source, the pipe, WriterChan
CpOpen ==
    /\ cpc = "open"
    /\ streamOpen' = TRUE
    /\ cpc' = "next"
    /\ UNCHANGED <<fs, fdOpen, cnext, cerr, cferr, cret, evals>>
    /\ CopyFrame

\* line 322, init statement: next, err := tarReader.Next().  The stream of a
\* source that no longer exists carries no entry.
CpNext ==
    /\ cpc = "next"
    /\ IF cfail = "next" \/ archive = << >> \/ (srcIsDest /\ fs[Root].kind = "none")
       THEN cnext' = 0 /\ cerr' = "error"
       ELSE cnext' = 1 /\ cerr' = "nil"
    /\ cpc' = "cond"
    /\ UNCHANGED <<fs, fdOpen, streamOpen, cferr, cret, evals>>
    /\ CopyFrame

\* line 322, condition: err == nil (the for statement has no post statement)
CpCond ==
    /\ cpc = "cond"
    /\ IF cerr = "nil"
       THEN cpc' = "stat"
       ELSE cpc' = "after"
    /\ UNCHANGED <<fs, fdOpen, streamOpen, cnext, cerr, cferr, cret, evals>>
    /\ CopyFrame

\* lines 326-328 with a stat error other than "not exist"
CpStatFailedContinue ==
    /\ cret' = "cannot stat file"
    /\ cpc' = "create"

CpStatFailed == CpReturn("cannot stat file")

\* lines 323-328: destinfo, err = os.Stat(nextPath) assigns the err of the for
\* statement; destinfo is nil when the stat fails.  evals keeps the first
\* MaxEvals evaluations.
CpStat ==
    /\ cpc = "stat"
    /\ evals' = IF Len(evals) < MaxEvals THEN Append(evals, cnext) ELSE evals
    /\ LET st == IF cfail = "stat" THEN "eacces" ELSE Stat(fs, NextPath)
       IN  /\ cerr' = IF st = "ok" THEN "nil" ELSE st
           /\ IF st \notin {"ok", "notexist"}
              THEN CpStatFailed
              ELSE /\ cpc' = IF st = "ok" THEN "decide" ELSE "create"
                   /\ cret' = cret
    /\ UNCHANGED <<fs, fdOpen, streamOpen, cnext, cferr>>
    /\ CopyFrame

\* a conflict: return fmt.Errorf(...)
CpConflict(e) == CpReturn(e) /\ fs' = fs

\* os.Remove / os.RemoveAll of the existing entry, then the end of the loop body
CpRemove(all, e) ==
    IF cfail = "remove" \/ (~all /\ ~RemoveOk(fs, NextPath))
    THEN /\ CpReturn(e)
         /\ fs' = fs
    ELSE /\ fs' = IF all THEN RemoveAll(fs, NextPath) ELSE Remove(fs, NextPath)
         /\ cpc' = "cond"
         /\ cret' = cret

\* lines 330-367: the destination path exists
CpDecide ==
    /\ cpc = "decide"
    /\ IF fs[NextPath].kind = "dir"
       THEN IF ~Finfo.isDir
            THEN IF ~overwrite
                 THEN CpConflict("cannot create directory, file exists at path, overwrite not specified")
                 ELSE CpRemove(FALSE, "cannot remove file")
            ELSE IF ~merge /\ ~overwrite
            THEN CpConflict("cannot create directory, directory exists at path, neither overwrite nor merge specified")
            ELSE IF overwrite
            THEN CpRemove(TRUE, "cannot remove directory")
            ELSE /\ cpc' = "cond"
                 /\ UNCHANGED <<fs, cret>>
       ELSE IF Finfo.isDir
            THEN IF ~overwrite
                 THEN CpConflict("cannot create file, directory exists at path, overwrite not specified")
                 ELSE CpRemove(TRUE, "cannot remove directory")
            ELSE IF ~overwrite
            THEN CpConflict("cannot create file, file exists at path, overwrite not specified")
            ELSE CpRemove(FALSE, "cannot remove file")
    /\ UNCHANGED <<fdOpen, streamOpen, cnext, cerr, cferr, evals>>
    /\ CopyFrame

\* lines 368-386: the destination path does not exist.  The errors of this
\* block are declared inside it and leave the err of the for statement alone.
CpCreate ==
    /\ cpc = "create"
    /\ IF Finfo.isDir
       THEN IF MkdirAllOk(fs, NextPath) /\ cfail # "create"
            THEN /\ fs' = MkdirAll(fs, NextPath, Finfo.mode)
                 /\ cpc' = "cond"
                 /\ UNCHANGED <<cret, fdOpen>>
            ELSE /\ CpReturn("cannot create directory")
                 /\ UNCHANGED <<fs, fdOpen>>
       ELSE IF ~CreateOk(fs, NextPath) \/ cfail = "create"
            THEN /\ CpReturn("cannot create new file")
                 /\ UNCHANGED <<fs, fdOpen>>
            ELSE IF cfail = "write"
            THEN /\ fs' = Create(fs, NextPath)
                 /\ fdOpen' = fdOpen + 1
                 /\ CpReturn("cannot write file")
            ELSE /\ fs' = [fs EXCEPT ![NextPath] = FileEntry(Finfo.data, Finfo.mode)]
                 /\ cpc' = "cond"
                 /\ UNCHANGED <<cret, fdOpen>>
    /\ UNCHANGED <<streamOpen, cnext, cerr, cferr, evals>>
    /\ CopyFrame

\* lines 388-391: err is the err of line 287 here
CpAfter ==
    /\ cpc = "after"
    /\ IF cferr # "nil"
       THEN CpReturn("cannot read tar stream")
       ELSE CpReturn("nil")
    /\ UNCHANGED <<fs, fdOpen, streamOpen, cnext, cerr, cferr, evals>>
    /\ CopyFrame

\* No stream is running.
IoIdle ==
    /\ ver = 2
    /\ input = << >>
    /\ eofWithData = FALSE
    /\ shortReads = FALSE
    /\ rdFailAt = NoFail
    /\ wrFailAt = NoFail
    /\ ctxDone = FALSE
    /\ callerCancelled = FALSE
    /\ cancelledMid = FALSE
    /\ ch = << >>
    /\ chClosed = FALSE
    /\ panicked = FALSE
    /\ sent = << >>
    /\ rpos = 0
    /\ nReads = 0
    /\ rpc = "idle"
    /\ rpend = NoPkt
    /\ rret = FALSE
    /\ rhash = HashNew
    /\ rres = "nil"
    /\ rcb = 0
    /\ wpc = "idle"
    /\ whash = HashNew
    /\ out = << >>
    /\ nWrites = 0
    /\ okCb = 0
    /\ errCb = << >>
    /\ delivered = << >>
    /\ gotSum = << >>

\* A copy onto itself has a file as source and destination (one entry).
InitCopy ==
    /\ IoIdle
    /\ AuxIdle
    /\ tampers = 0
    /\ got = << >>
    /\ fdOpen = 0
    /\ pbuf = << >>
    /\ prClosed = FALSE
    /\ pwClosed = FALSE
    /\ tarKind = "file"
    /\ tarFailAt = NoFail
    /\ apc = "idle"
    /\ astep = 0
    /\ fstat = "regular"
    /\ brAll = TRUE
    /\ brStart = 0
    /\ brEnd = 0
    /\ fpc = "idle"
    /\ filePos = 0
    /\ fn = 0
    /\ ferr = "nil"
    /\ fs \in FsStates
    /\ fs0 = fs
    /\ merge \in BOOLEAN
    /\ overwrite \in BOOLEAN
    /\ recursive \in BOOLEAN
    /\ srcIsDest \in BOOLEAN
    /\ archive \in Archives
    /\ srcIsDest => (fs[Root].kind = "file" /\ Len(archive) = 1 /\ ~archive[1].isDir)
    /\ cfail \in CopyFailures
    /\ cpc = "start"
    /\ streamOpen = FALSE
    /\ cnext = 0
    /\ cerr = "nil"
    /\ cferr = "nil"
    /\ cret = "none"
    /\ evals = << >>

NextCopy ==
    \/ CpPrecheck
    \/ CpOpen
    \/ CpNext
    \/ CpCond
    \/ CpStat
    \/ CpDecide
    \/ CpCreate
    \/ CpAfter

SpecCopy == InitCopy /\ [][NextCopy]_vars

\* The goroutine that runs RemoteFileCopyCommand is scheduled as long as it can
\* take a step.
SpecCopyFair == SpecCopy /\ WF_vars(NextCopy)


\* -------------------------------------------------------- parseByteRange
\* wshremote.go:53-66.  A string is a sequence of characters.
MaxStrLen == 4

Digits == {"0", "1", "2"}
Chars == Digits \cup {"-", "+", " ", "x"}

RECURSIVE StringsUpTo(_)
StringsUpTo(n) ==
    IF n = 0 THEN {<< >>}
    ELSE LET shorter == StringsUpTo(n - 1)
         IN  shorter \cup {Append(s, c) : s \in {t \in shorter : Len(t) = n - 1}, c \in Chars}

DigitVal(c) == IF c = "0" THEN 0 ELSE IF c = "1" THEN 1 ELSE 2

\* the value of a run of decimal digits
RECURSIVE DigitsVal(_)
DigitsVal(s) ==
    IF s = << >> THEN 0
    ELSE 10 * DigitsVal(SubSeq(s, 1, Len(s) - 1)) + DigitVal(s[Len(s)])

\* the longest prefix of s made of characters of the set cs
RECURSIVE Span(_, _)
Span(s, cs) ==
    IF s = << >> \/ Head(s) \notin cs THEN << >> ELSE <<Head(s)>> \o Span(Tail(s), cs)

Drop(s, n) == SubSeq(s, n + 1, Len(s))

\* fmt's %d: skips leading blanks, takes an optional sign and then the digits
\* that follow; fails at the end of the input or without a digit.
ScanInt(s) ==
    LET t == Drop(s, Len(Span(s, {" "})))
        signed == t # << >> /\ Head(t) \in {"+", "-"}
        u == IF signed THEN Tail(t) ELSE t
        ds == Span(u, Digits)
    IN  IF ds = << >>
        THEN [ok |-> FALSE, val |-> 0, rest |-> u]
        ELSE [ok |-> TRUE,
              val |-> IF signed /\ Head(t) = "-" THEN 0 - DigitsVal(ds) ELSE DigitsVal(ds),
              rest |-> Drop(u, Len(ds))]

\* fmt.Sscanf(rangeStr, "%d-%d", &start, &end): the input left after the second
\* number is not looked at.
Sscanf(s) ==
    LET a == ScanInt(s)
        b == ScanInt(Tail(a.rest))
    IN  IF ~a.ok \/ a.rest = << >> \/ Head(a.rest) # "-"
        THEN [ok |-> FALSE, start |-> 0, end |-> 0]
        ELSE IF ~b.ok
        THEN [ok |-> FALSE, start |-> a.val, end |-> 0]
        ELSE [ok |-> TRUE, start |-> a.val, end |-> b.val]

ByteRange(a, s, e, err) == [all |-> a, start |-> s, end |-> e, err |-> err]

parseByteRange(str) ==
    IF str = << >>
    THEN ByteRange(TRUE, 0, 0, "nil")
    ELSE LET r == Sscanf(str)
         IN  IF ~r.ok
             THEN ByteRange(FALSE, 0, 0, "invalid byte range")
             ELSE IF r.start < 0 \/ r.end < 0 \/ r.start > r.end
             THEN ByteRange(FALSE, 0, 0, "invalid byte range")
             ELSE ByteRange(FALSE, r.start, r.end, "nil")

ParseCall ==
    /\ ppc = "call"
    /\ parsed' = parseByteRange(rangeStr)
    /\ ppc' = "done"
    /\ UNCHANGED <<rangeStr, iovars, tampers, got, fdOpen, pipevars, tarvars, filevars, copyvars>>
    /\ UNCHANGED <<listvars, addvars, dirvars, opvars>>

InitParse ==
    /\ IoIdle
    /\ RestIdle
    /\ CopyIdle
    /\ ListIdle
    /\ AddIdle
    /\ OpIdle
    /\ ppc = "call"
    /\ rangeStr \in StringsUpTo(MaxStrLen)
    /\ parsed = ByteRange(FALSE, 0, 0, "nil")

NextParse == ParseCall

SpecParse == InitParse /\ [][NextParse]_vars

\* ----------------------------------------------- RemoteListEntriesCommand
\* The directory tree below the listed path, as the sequence of its nodes in
\* lexical (fs.WalkDir) order, the root "." left out: a node is a directory or a
\* file, at the top level or nested in the last top-level directory before it.
Node(d, n) == [dir |-> d, nested |-> n]
Nodes == {Node(d, n) : d \in BOOLEAN, n \in BOOLEAN}

RECURSIVE NodeSeqsUpTo(_)
NodeSeqsUpTo(n) ==
    IF n = 0 THEN {<< >>}
    ELSE LET S == NodeSeqsUpTo(n - 1)
         IN  S \cup {Append(s, x) : s \in {t \in S : Len(t) = n - 1}, x \in Nodes}

\* The top-level node that holds nested node i of t (0: none).
ParentOf(t, i) ==
    LET tops == {j \in 1..(i - 1) : ~t[j].nested}
    IN  IF tops = {} THEN 0 ELSE CHOOSE j \in tops : \A k \in tops : k <= j

Trees ==
    {t \in NodeSeqsUpTo(MaxNodes) :
        \A i \in 1..Len(t) : t[i].nested => (ParentOf(t, i) # 0 /\ t[ParentOf(t, i)].dir)}

\* os.ReadDir(path): the children of the path, sorted by name.
ReadDir(t) == SelectSeq([i \in 1..Len(t) |-> i], LAMBDA i : ~t[i].nested)

\* The walk of fs.WalkDir: position 0 is the root ".", position i is node i.
WalkLen(t) == Len(t) + 1
IsDir(t, pos) == pos = 0 \/ t[pos].dir

\* d.Name(): the base name of a node, its rank among its siblings.
Name(t, i) ==
    IF t[i].nested THEN i - ParentOf(t, i)
    ELSE Cardinality({j \in 1..i : ~t[j].nested})

\* statToFileInfo(filepath.Join(path, info.Name()), info, false) (line 446): the
\* path is the listed path joined with the base name.
statToFileInfo(t, i) == [name |-> Name(t, i), path |-> <<Name(t, i)>>, isdir |-> t[i].dir]

\* data.Opts.Limit after lines 405-407.
Limit == IF llimit = 0 THEN MaxDirSize ELSE llimit

ListFailures == {"none", "expand", "readdir", "info"}

EntriesPkt(arr) == [kind |-> "entries", data |-> arr, sum |-> << >>, alias |-> FALSE]

ListFrame ==
    UNCHANGED <<rdvars, wrvars, cfgvars, ctxvars, tampers, got, fdOpen, pipevars, tarvars,
                filevars, copyvars, parsevars, addvars, dirvars, opvars, tree, lall, loffset, llimit,
                lfail>>

\* Lines 398-408: ExpandHomeDir, the default limit, the choice of the listing.
LsStart ==
    /\ lpc = "start"
    /\ IF lfail = "expand"
       THEN lpc' = "senderr" /\ lerr' = "expand"
       ELSE lpc' = (IF lall THEN "walk" ELSE "readdir") /\ lerr' = lerr
    /\ UNCHANGED <<chanvars, seen, visited, innerFilesEntries, lidx, fileInfoArr>>
    /\ ListFrame

\* LsWalk with a walk that stops one node late (seen > Offset+Limit).
LsWalkLate ==
    /\ lpc = "walk"
    /\ LET rootErr == lfail = "readdir" /\ seen = 1
           len == IF lfail = "readdir" THEN 2 ELSE WalkLen(tree)
           pos == IF rootErr THEN 0 ELSE seen
       IN  IF seen >= len
           THEN /\ lpc' = "loop"
                /\ UNCHANGED <<seen, visited, innerFilesEntries>>
           ELSE /\ seen' = seen + 1
                /\ visited' = Append(visited, pos)
                /\ IF seen < loffset
                   THEN UNCHANGED <<lpc, innerFilesEntries>>
                   ELSE IF seen > loffset + Limit
                   THEN lpc' = "loop" /\ UNCHANGED innerFilesEntries
                   ELSE IF rootErr
                   THEN lpc' = "loop" /\ UNCHANGED innerFilesEntries
                   ELSE IF IsDir(tree, pos)
                   THEN UNCHANGED <<lpc, innerFilesEntries>>
                   ELSE /\ innerFilesEntries' = Append(innerFilesEntries, pos)
                        /\ UNCHANGED lpc
    /\ UNCHANGED <<chanvars, lidx, fileInfoArr, lerr>>
    /\ ListFrame

\* One call of the fs.WalkDir callback (lines 409-427), for the node at walk
\* position seen; the deferred seen++ runs on every return.  A directory that
\* cannot be read is handed to the callback a second time, with the error, and
\* has no children.  The value fs.WalkDir returns is dropped.
LsWalk ==
    /\ lpc = "walk"
    /\ LET rootErr == lfail = "readdir" /\ seen = 1
           len == IF lfail = "readdir" THEN 2 ELSE WalkLen(tree)
           pos == IF rootErr THEN 0 ELSE seen
       IN  IF seen >= len
           THEN /\ lpc' = "loop"
                /\ UNCHANGED <<seen, visited, innerFilesEntries>>
           ELSE /\ seen' = seen + 1
                /\ visited' = Append(visited, pos)
                /\ IF seen < loffset
                   THEN UNCHANGED <<lpc, innerFilesEntries>>
                   ELSE IF seen >= loffset + Limit
                   THEN lpc' = "loop" /\ UNCHANGED innerFilesEntries
                   ELSE IF rootErr
                   THEN lpc' = "loop" /\ UNCHANGED innerFilesEntries
                   ELSE IF IsDir(tree, pos)
                   THEN UNCHANGED <<lpc, innerFilesEntries>>
                   ELSE /\ innerFilesEntries' = Append(innerFilesEntries, pos)
                        /\ UNCHANGED lpc
    /\ UNCHANGED <<chanvars, lidx, fileInfoArr, lerr>>
    /\ ListFrame

\* Lines 429-433: innerFilesEntries, err = os.ReadDir(path).
LsReadDir ==
    /\ lpc = "readdir"
    /\ IF lfail = "readdir"
       THEN lpc' = "senderr" /\ lerr' = "readdir" /\ UNCHANGED innerFilesEntries
       ELSE lpc' = "loop" /\ innerFilesEntries' = ReadDir(tree) /\ UNCHANGED lerr
    /\ UNCHANGED <<chanvars, seen, visited, lidx, fileInfoArr>>
    /\ ListFrame

\* One iteration of the loop of line 436, up to the send of line 450; after the
\* last entry, lines 454-457.  Info() fails for the first entry when lfail = "info".
LsLoop ==
    /\ lpc = "loop"
    /\ IF lidx >= Len(innerFilesEntries)
       THEN /\ lpc' = (IF Len(fileInfoArr) > 0 THEN "sendlast" ELSE "close")
            /\ UNCHANGED <<lidx, fileInfoArr, lerr>>
       ELSE IF ctxDone
       THEN /\ lpc' = "senderr"
            /\ lerr' = "ctx"
            /\ UNCHANGED <<lidx, fileInfoArr>>
       ELSE /\ lidx' = lidx + 1
            /\ UNCHANGED lerr
            /\ IF lfail = "info" /\ lidx = 0
               THEN UNCHANGED <<lpc, fileInfoArr>>
               ELSE /\ fileInfoArr' =
                           Append(fileInfoArr, statToFileInfo(tree, innerFilesEntries[lidx + 1]))
                    /\ lpc' = (IF Len(fileInfoArr') >= DirChunkSize THEN "sendbatch" ELSE "loop")
    /\ UNCHANGED <<chanvars, seen, visited, innerFilesEntries>>
    /\ ListFrame

\* Lines 449-451 (back to the loop) and 455-456 (the last batch).
LsSendBatch ==
    /\ lpc \in {"sendbatch", "sendlast"}
    /\ CanSend
    /\ ChanSend(EntriesPkt(fileInfoArr))
    /\ fileInfoArr' = (IF lpc = "sendbatch" THEN << >> ELSE fileInfoArr)
    /\ lpc' = (IF lpc = "sendbatch" THEN "loop" ELSE "close")
    /\ UNCHANGED <<seen, visited, innerFilesEntries, lidx, lerr>>
    /\ ListFrame

\* Lines 400, 431, 438: the error is sent and the goroutine returns.
LsSendErr ==
    /\ lpc = "senderr"
    /\ CanSend
    /\ ChanSend(ErrPkt(lerr))
    /\ lpc' = "close"
    /\ UNCHANGED <<seen, visited, innerFilesEntries, lidx, fileInfoArr, lerr>>
    /\ ListFrame

\* defer close(ch) (line 397).
LsClose ==
    /\ lpc = "close"
    /\ ChanClose
    /\ lpc' = "done"
    /\ UNCHANGED <<seen, visited, innerFilesEntries, lidx, fileInfoArr, lerr>>
    /\ ListFrame

\* A listing of one tree: offset and limit are read by the walk only.
InitList ==
    /\ IoIdle
    /\ RestIdle
    /\ CopyIdle
    /\ ParseIdle
    /\ AddIdle
    /\ OpIdle
    /\ tree \in Trees
    /\ lall \in BOOLEAN
    /\ loffset \in 0..DirChunkSize
    /\ llimit \in 0..MaxDirSize
    /\ ~lall => (loffset = 0 /\ llimit = 0)
    /\ lfail \in ListFailures
    /\ lpc = "start"
    /\ seen = 0
    /\ visited = << >>
    /\ innerFilesEntries = << >>
    /\ lidx = 0
    /\ fileInfoArr = << >>
    /\ lerr = "nil"

NextList ==
    \/ LsStart
    \/ LsWalk
    \/ LsReadDir
    \/ LsLoop
    \/ LsSendBatch
    \/ LsSendErr
    \/ LsClose
    \/ Recv
    \/ Cancel

SpecList == InitList /\ [][NextList]_vars

\* ------------------------------------------------------ remoteStreamFileDir
\* The directory branch of the file stream (wshremote.go:68-114), run by the
\* goroutine of RemoteStreamFileCommand after the stat record was sent.
\* The callback of lines 187-202: a slice of more than one FileInfo becomes
\* Entries (with Info its first element), a slice of one becomes Info alone.
FileDataOf(fileInfo) ==
    [kind |-> IF Len(fileInfo) > 1 THEN "entries" ELSE "info",
     data |-> << >>, sum |-> << >>, alias |-> FALSE,
     info |-> fileInfo[1],
     entries |-> IF Len(fileInfo) > 1 THEN fileInfo ELSE << >>]

\* The name "..": the names of the children are their ranks 1, 2, ...
DotDot == 0

\* parentFileInfo with Name ".." and Size -1 (lines 89-92).
ParentEntry == [name |-> DotDot, path |-> <<DotDot>>, isdir |-> TRUE, size |-> 0 - 1]

\* filepath.Dir(path) is the path itself (the root), or another directory whose
\* stat succeeds or fails.
ParentKinds == {"same", "other", "staterr"}

\* s[from+1 .. to], the Go slice s[from:to].
Slice(s, from, to) == IF from >= to THEN << >> ELSE SubSeq(s, from + 1, to)

DirFrame ==
    UNCHANGED <<rdvars, wrvars, cfgvars, ctxvars, tampers, got, fdOpen, pipevars, tarvars,
                copyvars, parsevars, addvars, dirvars, opvars, fstat, brAll, brStart, brEnd,
                filePos, fn, tree, lall, loffset, llimit, lfail, lpc, seen, visited, lerr>>

\* Lines 170-177 for a directory (its Size is -1) and lines 69-86: the children,
\* cut at MaxDirSize or to the range.
DsReadDir ==
    /\ fpc = "stated"
    /\ fstat = "dir"
    /\ LET all == ReadDir(tree)
       IN  IF lfail = "readdir"
           THEN /\ ferr' = "cannot open dir"
                /\ fpc' = "ret"
                /\ UNCHANGED innerFilesEntries
           ELSE IF brAll
           THEN /\ innerFilesEntries' = Slice(all, 0, Min(Len(all), MaxDirSize))
                /\ fpc' = "parent"
                /\ UNCHANGED ferr
           ELSE IF brStart >= Len(all)
           THEN /\ fpc' = "ret"
                /\ UNCHANGED <<ferr, innerFilesEntries>>
           ELSE /\ innerFilesEntries' = Slice(all, brStart, Min(brEnd, Len(all)))
                /\ fpc' = "parent"
                /\ UNCHANGED ferr
    /\ UNCHANGED <<chanvars, lidx, fileInfoArr>>
    /\ DirFrame

\* DsParent without the test parent != path of line 90.
DsParentAlways ==
    /\ fpc = "parent"
    /\ fileInfoArr' = (IF dparent # "staterr" THEN <<ParentEntry>> ELSE << >>)
    /\ fpc' = "dloop"
    /\ UNCHANGED <<chanvars, ferr, innerFilesEntries, lidx>>
    /\ DirFrame

\* Lines 87-94: the entry of the parent directory comes first.
DsParent ==
    /\ fpc = "parent"
    /\ fileInfoArr' = (IF dparent = "other" THEN <<ParentEntry>> ELSE << >>)
    /\ fpc' = "dloop"
    /\ UNCHANGED <<chanvars, ferr, innerFilesEntries, lidx>>
    /\ DirFrame

\* DsLoop with a batch sent one entry late (len(fileInfoArr) > DirChunkSize).
DsLoopLate ==
    /\ fpc = "dloop"
    /\ IF lidx >= Len(innerFilesEntries)
       THEN /\ fpc' = (IF Len(fileInfoArr) > 0 THEN "dlast" ELSE "ret")
            /\ UNCHANGED <<ferr, lidx, fileInfoArr>>
       ELSE IF ctxDone
       THEN /\ ferr' = "context canceled"
            /\ fpc' = "ret"
            /\ UNCHANGED <<lidx, fileInfoArr>>
       ELSE /\ lidx' = lidx + 1
            /\ UNCHANGED ferr
            /\ IF lfail = "info" /\ lidx = 0
               THEN UNCHANGED <<fpc, fileInfoArr>>
               ELSE /\ fileInfoArr' =
                           Append(fileInfoArr, statToFileInfo(tree, innerFilesEntries[lidx + 1]))
                    /\ fpc' = (IF Len(fileInfoArr') > DirChunkSize THEN "dsend" ELSE "dloop")
    /\ UNCHANGED <<chanvars, innerFilesEntries>>
    /\ DirFrame

\* One iteration of the loop of line 95, up to the dataCallback of line 106;
\* after the last entry, lines 110-113.
DsLoop ==
    /\ fpc = "dloop"
    /\ IF lidx >= Len(innerFilesEntries)
       THEN /\ fpc' = (IF Len(fileInfoArr) > 0 THEN "dlast" ELSE "ret")
            /\ UNCHANGED <<ferr, lidx, fileInfoArr>>
       ELSE IF ctxDone
       THEN /\ ferr' = "context canceled"
            /\ fpc' = "ret"
            /\ UNCHANGED <<lidx, fileInfoArr>>
       ELSE /\ lidx' = lidx + 1
            /\ UNCHANGED ferr
            /\ IF lfail = "info" /\ lidx = 0
               THEN UNCHANGED <<fpc, fileInfoArr>>
               ELSE /\ fileInfoArr' =
                           Append(fileInfoArr, statToFileInfo(tree, innerFilesEntries[lidx + 1]))
                    /\ fpc' = (IF Len(fileInfoArr') >= DirChunkSize THEN "dsend" ELSE "dloop")
    /\ UNCHANGED <<chanvars, innerFilesEntries>>
    /\ DirFrame

\* dataCallback(fileInfoArr, nil, byteRange), lines 106-107 and 111: ch <- Response.
DsSendBatch ==
    /\ fpc \in {"dsend", "dlast"}
    /\ CanSend
    /\ ChanSend(FileDataOf(fileInfoArr))
    /\ fileInfoArr' = (IF fpc = "dsend" THEN << >> ELSE fileInfoArr)
    /\ fpc' = (IF fpc = "dsend" THEN "dloop" ELSE "ret")
    /\ UNCHANGED <<ferr, innerFilesEntries, lidx>>
    /\ DirFrame

\* A stream of one directory: its children, the range, the parent.
InitDir ==
    /\ IoIdle
    /\ CopyIdle
    /\ ParseIdle
    /\ AddIdle
    /\ tampers = 0
    /\ got = << >>
    /\ fdOpen = 0
    /\ pbuf = << >>
    /\ prClosed = FALSE
    /\ pwClosed = FALSE
    /\ tarKind = "file"
    /\ recursive = FALSE
    /\ tarFailAt = NoFail
    /\ apc = "idle"
    /\ astep = 0
    /\ fstat = "dir"
    /\ \E r \in {[all |-> TRUE, start |-> 0, end |-> 0]}
                  \cup {[all |-> FALSE, start |-> a, end |-> b] :
                            a \in 0..(MaxNodes + 1), b \in 0..(MaxNodes + 1)} :
          /\ r.start <= r.end
          /\ brAll = r.all
          /\ brStart = r.start
          /\ brEnd = r.end
    /\ fpc = "start"
    /\ filePos = 0
    /\ fn = 0
    /\ ferr = "nil"
    /\ tree \in {t \in Trees : \A i \in 1..Len(t) : ~t[i].nested}
    /\ lall = FALSE
    /\ loffset = 0
    /\ llimit = 0
    /\ lfail \in {"none", "readdir", "info"}
    /\ lpc = "idle"
    /\ seen = 0
    /\ visited = << >>
    /\ innerFilesEntries = << >>
    /\ lidx = 0
    /\ fileInfoArr = << >>
    /\ lerr = "nil"
    /\ dparent \in ParentKinds
    /\ opc = "idle"
    /\ opName = "touch"
    /\ opPath = << >>
    /\ opNew = << >>
    /\ opErr = "nil"

NextDir ==
    \/ FsStat
    \/ DsReadDir
    \/ DsParent
    \/ DsLoop
    \/ DsSendBatch
    \/ FsSendErr
    \/ FsClose
    \/ Recv
    \/ Cancel

SpecDir == InitDir /\ [][NextDir]_vars

\* The two operations that send entry batches: a directory stream or a listing.
InitBatch == InitDir \/ InitList

NextBatch == NextDir \/ NextList

SpecBatch == InitBatch /\ [][NextBatch]_vars

\* ------------------------------------------------- AddInt / AddIntSlice
\* utilfn.AddInt and utilfn.AddIntSlice, as utilfn_test.go uses them: int is a
\* two's complement integer of IntBits bits.
MaxInt == 2 ^ (IntBits - 1) - 1
MinInt == 0 - 2 ^ (IntBits - 1)
Ints == MinInt..MaxInt

\* The int that a + b yields in Go: the sum modulo 2^IntBits.
WrapAdd(a, b) == ((a + b - MinInt) % (2 ^ IntBits)) + MinInt

\* AddInt as the plain Go addition: the sum wraps.
AddIntWraps(a, b) == [val |-> WrapAdd(a, b), err |-> "nil"]

\* AddInt(a, b): an error instead of a sum that wraps.
AddInt(a, b) ==
    IF a > 0 /\ b > MaxInt - a THEN [val |-> 0, err |-> "integer overflow"]
    ELSE IF a < 0 /\ b < MinInt - a THEN [val |-> 0, err |-> "integer underflow"]
    ELSE [val |-> WrapAdd(a, b), err |-> "nil"]

RECURSIVE IntSeqsUpTo(_)
IntSeqsUpTo(n) ==
    IF n = 0 THEN {<< >>}
    ELSE LET S == IntSeqsUpTo(n - 1)
         IN  S \cup {Append(s, x) : s \in {t \in S : Len(t) = n - 1}, x \in Ints}

AddFrame ==
    UNCHANGED <<iovars, tampers, got, fdOpen, pipevars, tarvars, filevars, copyvars, parsevars,
                listvars, dirvars, opvars, ufn, uvals>>

\* A call of AddInt(a, b).
AddIntCall ==
    /\ upc = "call"
    /\ ufn = "AddInt"
    /\ ures' = AddInt(uvals[1], uvals[2])
    /\ upc' = "done"
    /\ UNCHANGED <<uidx, urtn>>
    /\ AddFrame

\* AddIntSlice(vals...): one iteration of its loop, rtn, err = AddInt(rtn, v),
\* the first error is returned.
AddIntSliceStep ==
    /\ upc = "call"
    /\ ufn = "AddIntSlice"
    /\ uidx < Len(uvals)
    /\ LET r == AddInt(urtn, uvals[uidx + 1])
       IN  IF r.err # "nil"
           THEN /\ ures' = [val |-> 0, err |-> r.err]
                /\ upc' = "done"
                /\ UNCHANGED <<uidx, urtn>>
           ELSE /\ urtn' = r.val
                /\ uidx' = uidx + 1
                /\ UNCHANGED <<upc, ures>>
    /\ AddFrame

\* AddIntSlice: the return after the last value.
AddIntSliceReturn ==
    /\ upc = "call"
    /\ ufn = "AddIntSlice"
    /\ uidx = Len(uvals)
    /\ ures' = [val |-> urtn, err |-> "nil"]
    /\ upc' = "done"
    /\ UNCHANGED <<uidx, urtn>>
    /\ AddFrame

InitAdd ==
    /\ IoIdle
    /\ RestIdle
    /\ CopyIdle
    /\ ParseIdle
    /\ ListIdle
    /\ OpIdle
    /\ upc = "call"
    /\ ufn \in {"AddInt", "AddIntSlice"}
    /\ uvals \in IntSeqsUpTo(MaxVals)
    /\ ufn = "AddInt" => Len(uvals) = 2
    /\ uidx = 0
    /\ urtn = 0
    /\ ures = [val |-> 0, err |-> "nil"]

NextAdd ==
    \/ AddIntCall
    \/ AddIntSliceStep
    \/ AddIntSliceReturn

SpecAdd == InitAdd /\ [][NextAdd]_vars

\* ------------------------------------------------ touch / mkdir / rename
\* wshremote.go:569-610.  The three commands work on the filesystem fs (its
\* entries are files and directories); fs0 is the filesystem at the call.
OpNames == {"touch", "mkdir", "rename"}

\* stand-in for the permission bits 0644 of os.WriteFile
TouchMode == 6

\* the path whose existence the command tests with os.Stat
OpTarget == IF opName = "rename" THEN opNew ELSE opPath

\* filepath.Dir(cleanedPath)
Dir(p) == SubSeq(p, 1, Len(p) - 1)

\* os.MkdirAll(filepath.Dir(cleanedPath), 0755); the directory holding Root exists
MkdirDirOk(f, p) == \A q \in Ancestors(p) : f[q].kind # "file"
MkdirDir(f, p) == IF p = Root THEN f ELSE MkdirAll(f, Dir(p), 7)

\* os.WriteFile(name, []byte{}, perm): O_WRONLY|O_CREATE|O_TRUNC
WriteFileOk(f, p) == CreateOk(f, p)
WriteFile(f, p, m) ==
    [f EXCEPT ![p] = FileEntry(<< >>, IF f[p].kind = "file" THEN f[p].mode ELSE m)]

\* os.Rename of a file or an empty directory: the old path must exist, the
\* new path must lie in a directory and outside the old path; a file replaces
\* a file, a directory replaces an empty directory.
RenameOk(f, old, new) ==
    /\ Stat(f, old) = "ok"
    /\ \A q \in Ancestors(new) : f[q].kind = "dir"
    /\ old # new => ~IsUnder(new, old)
    /\ \/ old = new
       \/ f[new].kind = "none"
       \/ f[new].kind = "file" /\ f[old].kind = "file"
       \/ f[new].kind = "dir" /\ f[old].kind = "dir" /\ ~HasChildren(f, new)
Rename(f, old, new) ==
    IF old = new THEN f ELSE [f EXCEPT ![new] = f[old], ![old] = NoEntry]

OpFrame ==
    UNCHANGED <<iovars, tampers, got, fdOpen, pipevars, tarvars, filevars, parsevars, listvars,
                addvars, dirvars, fs0, merge, overwrite, srcIsDest, archive, cfail, cpc,
                streamOpen, cnext, cerr, cferr, cret, evals, opName, opPath, opNew>>

\* return fmt.Errorf(...) / return nil
OpReturn(e) == opErr' = e /\ opc' = "done"

\* The command goes on whatever os.Stat finds.
OpStatNoCheck ==
    /\ opc = "start"
    /\ opc' = opName
    /\ UNCHANGED <<fs, opErr>>
    /\ OpFrame

\* if _, err := os.Stat(...); err == nil { return fmt.Errorf(...) }
\* (lines 571-573, 588-590, 599-605)
OpStat ==
    /\ opc = "start"
    /\ IF Stat(fs, OpTarget) = "ok"
       THEN OpReturn(IF opName = "mkdir" /\ fs[OpTarget].kind = "file"
                     THEN "file exists at path" ELSE "already exists")
       ELSE opc' = opName /\ UNCHANGED opErr
    /\ UNCHANGED fs
    /\ OpFrame

\* RemoteFileTouchCommand, lines 574-576
TouchMkdirAll ==
    /\ opc = "touch"
    /\ \/ /\ MkdirDirOk(fs, opPath)
          /\ fs' = MkdirDir(fs, opPath)
          /\ opc' = "write"
          /\ UNCHANGED opErr
       \/ /\ OpReturn("cannot create directory")
          /\ UNCHANGED fs
    /\ OpFrame

\* RemoteFileTouchCommand, lines 577-580
TouchWriteFile ==
    /\ opc = "write"
    /\ \/ /\ WriteFileOk(fs, opPath)
          /\ fs' = WriteFile(fs, opPath, TouchMode)
          /\ OpReturn("nil")
       \/ /\ OpReturn("cannot create file")
          /\ UNCHANGED fs
    /\ OpFrame

\* RemoteFileRenameCommand, lines 591-594
RenameRename ==
    /\ opc = "rename"
    /\ \/ /\ RenameOk(fs, opPath, opNew)
          /\ fs' = Rename(fs, opPath, opNew)
          /\ OpReturn("nil")
       \/ /\ OpReturn("cannot rename file")
          /\ UNCHANGED fs
    /\ OpFrame

\* RemoteMkdirCommand, lines 606-609
MkdirMkdirAll ==
    /\ opc = "mkdir"
    /\ \/ /\ MkdirAllOk(fs, opPath)
          /\ fs' = MkdirAll(fs, opPath, 7)
          /\ OpReturn("nil")
       \/ /\ OpReturn("cannot create directory")
          /\ UNCHANGED fs
    /\ OpFrame

\* A call of one command; a renamed directory is empty.
InitOp ==
    /\ IoIdle
    /\ RestIdle
    /\ ParseIdle
    /\ ListIdle
    /\ AddIdle
    /\ dparent = "same"
    /\ fs \in FsStates
    /\ fs0 = fs
    /\ merge = FALSE
    /\ overwrite = FALSE
    /\ srcIsDest = FALSE
    /\ archive = << >>
    /\ cfail = "none"
    /\ cpc = "idle"
    /\ streamOpen = FALSE
    /\ cnext = 0
    /\ cerr = "nil"
    /\ cferr = "nil"
    /\ cret = "none"
    /\ evals = << >>
    /\ opc = "start"
    /\ opName \in OpNames
    /\ opPath \in Paths
    /\ opNew \in IF opName = "rename" THEN Paths ELSE {Root}
    /\ opName = "rename" => ~HasChildren(fs, opPath)
    /\ opErr = "nil"

NextOp ==
    \/ OpStat
    \/ TouchMkdirAll
    \/ TouchWriteFile
    \/ RenameRename
    \/ MkdirMkdirAll

SpecOp == InitOp /\ [][NextOp]_vars

\* =================================================================== claims
\* ---- reader -> writer (SpecIO)

\* C1: round trip. With no cancellation and no I/O error, once WriterChan (ver 2)
\* has finished, the bytes written to its output are the input, byte for byte,
\* no failure was reported and the completion callback ran once.
C1_RoundTrip ==
    (ver = 2 /\ rdFailAt = NoFail /\ wrFailAt = NoFail /\ ~ctxDone /\ wpc = "done")
        => (out = input /\ errCb = << >> /\ okCb = 1)

C7_ReadError ==
    (rres = "error" /\ rpc = "done")
        => /\ Len(SelectKind(sent, "error")) = 1
           /\ Len(SelectKind(sent, "checksum")) = 0
           /\ sent[Len(sent)].kind = "error"
           /\ rcb = 1
           /\ chClosed
           /\ ~panicked

C7_Witness ==
    /\ rres = "error" /\ rpc = "done"
    /\ Len(sent) = 2
    /\ sent[1].kind = "data"
    /\ rcb = 1 /\ chClosed

\* ---- packets altered in transit (SpecTamper)

\* C2 as stated: whenever the data chunks WriterChan received are not the chunks
\* ReaderChan sent (one altered, dropped, duplicated or reordered) and the
\* checksum packet arrived unchanged, WriterChan reports a checksum mismatch.
C2_AnyChunkChangeDetected ==
    (gotSum # << >> /\ delivered # DataOf(sent))
        => "WriterChan: checksum mismatch" \in {errCb[i] : i \in 1..Len(errCb)}

\* C2 amended: whenever the bytes WriterChan received (its chunks concatenated)
\* differ from the bytes ReaderChan sent and the checksum packet arrived
\* unchanged, WriterChan reports a checksum mismatch through errCallback.
C2_CorruptionDetected ==
    (gotSum # << >> /\ Concat(delivered) # Concat(DataOf(sent)))
        => /\ gotSum = <<HashSum(Concat(DataOf(sent)))>>
           /\ errCb = <<"WriterChan: checksum mismatch">>

C2_Witness ==
    /\ gotSum # << >>
    /\ Concat(delivered) # Concat(DataOf(sent))
    /\ Len(delivered) = Len(DataOf(sent))
    /\ wpc = "done"
    /\ errCb = <<"WriterChan: checksum mismatch">>

\* ---- archive stream (SpecTar)

\* C3: a terminal packet is the last packet of its channel: no packet of any
\* kind is sent after a checksum packet or an error packet.
C3_TerminalIsLast ==
    \A i \in 1..(Len(sent) - 1) : ~IsTerminal(sent[i])

\* C4: no packet is sent on a channel after it was closed and no channel is
\* closed twice (either one panics the process).
C4_NoSendAfterClose == ~panicked

\* C6: for a regular file or a directory with the recursive option, with no
\* I/O error and no cancellation by the caller, a closed channel has carried
\* all bytes of the archive followed by a checksum packet that covers them.
C6_ArchiveChecksummed ==
    (ver = 2 /\ (tarKind = "file" \/ recursive) /\ tarFailAt = NoFail
        /\ ~callerCancelled /\ chClosed)
        => /\ Len(sent) >= 1
           /\ sent[Len(sent)].kind = "checksum"
           /\ Concat(DataOf(sent)) = StepBytes(TarSteps)
           /\ sent[Len(sent)].sum = HashSum(StepBytes(TarSteps))

\* C9: once the context is cancelled, the producers stop and close the
\* channel: when nothing can run any more (every queued packet received, no
\* goroutine able to take a step), the archiving goroutine and ReaderChan have
\* finished and the channel is closed.
C9_CancelStopsProducers ==
    (ctxDone /\ ~panicked /\ ~ENABLED NextTar)
        => (apc = "done" /\ rpc = "done" /\ chClosed)

\* C10: when the goroutines of the operation have finished, every file handle
\* and both pipe ends it opened are closed.
C10_HandlesReleased ==
    (apc = "done" /\ rpc = "done")
        => (fdOpen = 0 /\ prClosed /\ pwClosed)

\* ---- file stream (SpecFile)

\* C8: when the context is cancelled mid-stream (after a data chunk was sent,
\* with data still to read) and no read fails, no error packet and no checksum
\* packet is sent on the channel: the cancellation is not reported as an error.
C8_CancelSendsNoTerminal ==
    (cancelledMid /\ rdFailAt = NoFail)
        => \A i \in 1..Len(sent) : ~IsTerminal(sent[i])

\* C11: WriterChan invokes the success callback if and only if it received a
\* checksum packet equal to its local digest; in every other termination the
\* success callback is not invoked, and a mismatch invokes the failure callback
\* with the checksum error.
C11_SuccessIffChecksumMatch ==
    wpc = "done" =>
        /\ (okCb > 0) <=> (Len(gotSum) = 1 /\ ChecksumOk(HashSum(whash), gotSum[1]))
        /\ (Len(gotSum) = 1 /\ ~ChecksumOk(HashSum(whash), gotSum[1]))
               => errCb = <<"WriterChan: checksum mismatch">>

\* C12: once WriterChan has stopped, the remaining packets are drained: every
\* send ReaderChan attempts eventually completes.
C12_SendCompletes == (rpc = "send") ~> (rpc # "send")

\* WriterChan has left its loop while ReaderChan waits to send on the full channel.
C12_Witness ==
    /\ rpc = "send"
    /\ Len(ch) = ChanCap
    /\ ~chClosed
    /\ wpc \in {"defer1", "defer2"}
    /\ WrDeferStep(IF wpc = "defer1" THEN 1 ELSE 2) = "drain"

\* ---- copy: helpers of the claims

\* the entry a path holds once the archive entry e has been copied to it
Incoming(e) == IF e.isDir THEN DirEntry(e.mode) ELSE FileEntry(e.data, e.mode)

\* the loop of RemoteFileCopyCommand started: the destination check let the
\* request pass
LoopStarted == streamOpen /\ cpc \notin {"open", "next"}

\* the filesystem the loop starts with: the destination check removed
\* everything (lines 295, 307) unless the destination is merged into
AtLoopStart == IF fs0[Root].kind = "dir" /\ merge THEN fs0 ELSE [p \in Paths |-> NoEntry]

\* the reason of the table row for an existing destination and an incoming
\* entry, overwrite = false; "none": no conflict (merge of two directories)
ConflictReason(dst, e) ==
    IF dst.kind = "dir"
    THEN IF ~e.isDir
         THEN "cannot create directory, file exists at path, overwrite not specified"
         ELSE IF ~merge
         THEN "cannot create directory, directory exists at path, neither overwrite nor merge specified"
         ELSE "none"
    ELSE IF e.isDir
         THEN "cannot create file, directory exists at path, overwrite not specified"
         ELSE "cannot create file, file exists at path, overwrite not specified"

\* entry i of the archive meets an existing destination it conflicts with
Conflicts(i) ==
    /\ AtLoopStart[archive[i].name].kind # "none"
    /\ ConflictReason(AtLoopStart[archive[i].name], archive[i]) # "none"

\* the entries before i are copied without any failure: their paths are free
\* and their parents below the destination are directories
CleanBefore(i) ==
    \A j \in 1..(i - 1) :
        /\ AtLoopStart[archive[j].name].kind = "none"
        /\ \A q \in Ancestors(archive[j].name) \ {Root} :
              \/ AtLoopStart[q].kind = "dir"
              \/ \E k \in 1..(j - 1) : archive[k].name = q /\ archive[k].isDir

\* C13: with overwrite = false, an archive entry that meets an existing
\* destination of a conflicting kind makes copy fail with the reason of its
\* table row, and the existing entry is left as it was.
C13_ConflictFails ==
    (cpc = "done" /\ LoopStarted /\ ~overwrite /\ cfail = "none") =>
        \A i \in 1..Len(archive) :
            (Conflicts(i) /\ CleanBefore(i)) =>
                /\ cret = ConflictReason(AtLoopStart[archive[i].name], archive[i])
                /\ fs[archive[i].name] = fs0[archive[i].name]

\* C14: with overwrite = true, an archive entry that meets an existing
\* destination replaces it: once copy is through, the path holds the incoming
\* entry, and below it only what the archive put there.
C14_OverwriteReplaces ==
    (cpc = "done" /\ LoopStarted /\ overwrite /\ cfail = "none") =>
        \A i \in 1..Len(archive) :
            (AtLoopStart[archive[i].name].kind # "none" /\ CleanBefore(i)) =>
                /\ fs[archive[i].name] = Incoming(archive[i])
                /\ \A q \in Paths :
                      (q # archive[i].name /\ IsUnder(q, archive[i].name) /\ fs[q].kind # "none")
                          => \E k \in 1..Len(archive) : archive[k].name = q

\* entry i of the archive is a directory merged into an existing directory
MergesInto(i) ==
    /\ merge
    /\ ~overwrite
    /\ archive[i].isDir
    /\ AtLoopStart[archive[i].name].kind = "dir"

\* C15: a directory entry that meets an existing directory with merge = true,
\* overwrite = false changes nothing, and the next evaluation is that of the
\* next archive entry.
C15_MergeIsNoOp ==
    \A k \in 1..Len(evals) :
        MergesInto(evals[k]) =>
            /\ \A q \in Paths :
                  (IsUnder(q, archive[evals[k]].name) /\ ~\E j \in 1..Len(archive) : archive[j].name = q /\ j # evals[k])
                      => fs[q] = fs0[q]
            /\ k < Len(evals) => evals[k + 1] = evals[k] + 1

\* C16: copy into a destination that does not exist, without I/O failure,
\* creates every entry of the archive (a directory, or a file with the payload
\* and the mode of the entry) and returns success.
C16_CreatesMissing ==
    (cpc = "done" /\ fs0[Root].kind = "none" /\ cfail = "none" /\ ~srcIsDest
                  /\ Len(archive) >= 1 /\ CleanBefore(Len(archive) + 1)) =>
        /\ cret = "nil"
        /\ \A i \in 1..Len(archive) : fs[archive[i].name] = Incoming(archive[i])

\* C17: the destination of each archive entry is evaluated once, in archive
\* order, and a successful copy has evaluated every entry.
C17_EachEntryOnce ==
    /\ \A k \in 1..Len(evals) : evals[k] = k
    /\ (cpc = "done" /\ cret = "nil" /\ ~srcIsDest /\ cfail = "none") => Len(evals) = Len(archive)

\* copy has recorded the failure of an entry
CopyFailed == cret \notin {"none", "nil"}

Rejected ==
    \/ fs0[Root].kind = "dir" /\ ~recursive
    \/ fs0[Root].kind = "dir" /\ ~merge /\ ~overwrite
    \/ fs0[Root].kind = "file" /\ ~overwrite

\* C19: a request the destination check rejects is answered with the error
\* before the tar stream and the pipe are opened, and the destination is left
\* as it was.
C19_RejectedFast ==
    (Rejected /\ cpc # "start") =>
        /\ cpc = "done"
        /\ CopyFailed
        /\ ~streamOpen
        /\ fs = fs0

C19_Witness ==
    /\ cpc = "done"
    /\ fs0[Root].kind = "dir"
    /\ HasChildren(fs0, Root)
    /\ cret = "destination is a directory, use overwrite option"

\* C20: copying a file onto itself fails and leaves the file with its bytes,
\* whatever the options.
C20_SelfCopyKeepsFile ==
    srcIsDest =>
        /\ fs[Root] = fs0[Root]
        /\ cpc = "done" => CopyFailed

\* C21: when the archive stream copy consumes fails (error packet, checksum
\* mismatch, read failure), so that tarReader.Next() fails, copy returns an
\* error and not success.
C21_StreamErrorReturned == (cpc = "done" /\ cfail = "next" /\ LoopStarted) => CopyFailed

\* C22: an archive stream of a directory without the recursive option carries
\* an error packet and nothing else, and is then closed: when nothing can run
\* any more, exactly the error packet was sent and the channel is closed.
C22_DirNeedsRecursive ==
    (tarKind = "dir" /\ ~recursive /\ ~callerCancelled /\ ~ENABLED NextTar) =>
        /\ Len(sent) = 1
        /\ sent[1].kind = "error"
        /\ chClosed

\* str is exactly <digits>-<digits>, the dash at position k
ExactForm(str, k) ==
    /\ 1 < k /\ k < Len(str)
    /\ str[k] = "-"
    /\ \A i \in 1..Len(str) : i # k => str[i] \in Digits

\* C23: parseByteRange takes "" as the whole file, takes exactly the strings
\* "s-e" with 0 <= s <= e, returning these bounds without the whole-file flag,
\* and rejects every other string as an invalid byte range.
C23_ParseExactForm ==
    ppc = "done" =>
        IF rangeStr = << >>
        THEN parsed.all /\ parsed.err = "nil"
        ELSE IF \E k \in 1..Len(rangeStr) :
                   /\ ExactForm(rangeStr, k)
                   /\ DigitsVal(SubSeq(rangeStr, 1, k - 1)) <= DigitsVal(Drop(rangeStr, k))
        THEN \E k \in 1..Len(rangeStr) :
                /\ ExactForm(rangeStr, k)
                /\ parsed = ByteRange(FALSE, DigitsVal(SubSeq(rangeStr, 1, k - 1)),
                                      DigitsVal(Drop(rangeStr, k)), "nil")
        ELSE parsed.err = "invalid byte range"

\* ---- listing (SpecList)
\* The entries the listing has sent, batch after batch.
Listed == Concat([i \in 1..Len(SelectKind(sent, "entries")) |-> SelectKind(sent, "entries")[i].data])

\* The listing ran to its end without a failure or a cancellation.
ListedAll == lpc = "done" /\ lfail = "none" /\ ~ctxDone

\* C24: listEntries with all=false on a directory with more children than one
\* batch holds returns, across its batches, children of the directory only, none
\* of them twice, and as many of them as there are, up to MaxDirSize entries.
C24_ListEachChildOnce ==
    (ListedAll /\ ~lall /\ Len(ReadDir(tree)) > DirChunkSize) =>
        LET children == ReadDir(tree)
        IN  /\ \A k \in 1..Len(Listed) :
                 \E i \in 1..Len(children) : Listed[k] = statToFileInfo(tree, children[i])
            /\ \A k, l \in 1..Len(Listed) : Listed[k] = Listed[l] => k = l
            /\ Len(Listed) = Min(Len(children), MaxDirSize)

\* The files of the tree at the walk positions [Offset, Offset+Limit), in order.
InWindow == SelectSeq([i \in 1..Len(tree) |-> i],
                      LAMBDA i : i >= loffset /\ i < loffset + Limit /\ ~tree[i].dir)

\* C25: listEntries with all=true, offset O and limit L (no limit: MaxDirSize)
\* returns exactly the files whose position in the walk, every visited node
\* counted, is in [O, O+L); no directory is returned, and the callback is called
\* for every node up to the first one whose position reaches O+L, and no further.
C25_WalkWindow ==
    (ListedAll /\ lall) =>
        /\ innerFilesEntries = InWindow
        /\ Len(Listed) = Len(InWindow)
        /\ \A k \in 1..Len(Listed) :
             Listed[k].name = Name(tree, InWindow[k]) /\ ~Listed[k].isdir
        /\ visited = [k \in 1..Min(WalkLen(tree), loffset + Limit + 1) |-> k - 1]

\* A walk with an offset that skipped a directory, returned a file from inside
\* it and stopped before the end of the tree.
C25_Witness ==
    /\ ListedAll /\ lall
    /\ loffset > 0 /\ llimit > 0
    /\ \E i \in 1..Len(tree) : tree[i].dir /\ i < loffset
    /\ \E k \in 1..Len(innerFilesEntries) : tree[innerFilesEntries[k]].nested
    /\ Len(visited) < WalkLen(tree)
    /\ Listed # << >>

\* ---- file stream: missing path, size limit, byte range (SpecFile)
\* C26: a missing path is reported as data: fileInfoInternal returns a record
\* with the not-found flag and no error, and the file stream sends one packet,
\* that record, and closes the channel: no error packet, no data chunk, no
\* file opened.
C26_MissingIsData ==
    /\ fileInfoInternal("notfound").notfound /\ fileInfoInternal("notfound").err = "nil"
    /\ fstat = "notfound" =>
          /\ fdOpen = 0
          /\ Len(sent) <= 1
          /\ \A i \in 1..Len(sent) : sent[i] = InfoPkt(TRUE)
          /\ ~ENABLED NextFile => (Len(sent) = 1 /\ chClosed /\ ch = << >> /\ got = sent)

\* The stream on a missing path has ended and the caller has its packet.
C26_Witness ==
    /\ fstat = "notfound"
    /\ input # << >>
    /\ fpc = "done"
    /\ chClosed
    /\ got = <<InfoPkt(TRUE)>>

RECURSIVE Sum(_)
Sum(v) == IF v = << >> THEN 0 ELSE Head(v) + Sum(Tail(v))

Fits(x) == MinInt <= x /\ x <= MaxInt

\* C28: AddInt(a, b) returns a+b and no error when the sum fits the int range,
\* and an error when it does not; AddIntSlice returns the sum of its values (0
\* for none) when every running sum fits, and an error whenever the sum of all
\* values does not fit, wherever the value that overflows stands.
C28_CheckedAdd ==
    upc = "done" =>
        /\ ufn = "AddInt" =>
              IF Fits(uvals[1] + uvals[2])
              THEN ures = [val |-> uvals[1] + uvals[2], err |-> "nil"]
              ELSE ures.err # "nil"
        /\ ufn = "AddIntSlice" =>
              /\ ures.err = "nil" => ures.val = Sum(uvals)
              /\ ~Fits(Sum(uvals)) => ures.err # "nil"
              /\ (\A k \in 0..Len(uvals) : Fits(Sum(SubSeq(uvals, 1, k)))) => ures.err = "nil"

\* AddIntSlice returned an error for a list whose first value makes the sum
\* overflow, with values after it.
C28_Witness ==
    /\ upc = "done"
    /\ ufn = "AddIntSlice"
    /\ Len(uvals) = 3
    /\ uvals[1] = MaxInt /\ uvals[2] > 0 /\ uvals[3] > 0
    /\ ures.err # "nil"

\* ---- copy: termination (SpecCopyFair)
\* C29: copy terminates: for every archive, every combination of the options
\* and every destination, RemoteFileCopyCommand eventually returns.
C29_CopyReturns == <>(cpc = "done")

\* The bytes of the file in the range: from byteRange.Start up to End, or up to
\* the end of the file when that comes first.
InRange ==
    IF brStart >= Min(brEnd, Len(input)) THEN << >>
    ELSE SubSeq(input, brStart + 1, Min(brEnd, Len(input)))

IsPrefix(a, b) == Len(a) <= Len(b) /\ a = SubSeq(b, 1, Len(a))

\* C30: a file stream with byte range s-e on a regular file of size N delivers
\* data chunks whose concatenation is the file's bytes from s up to min(e, N):
\* at no time a byte at or beyond e is sent, and a start at or beyond the end
\* of the file yields no data bytes and no error.
C30_RangeClipped ==
    (fstat = "regular" /\ ~brAll /\ Len(input) <= MaxFileSize) =>
        /\ IsPrefix(Concat(DataOf(sent)), InRange)
        /\ (fpc = "done" /\ rdFailAt = NoFail /\ ~ctxDone) =>
              /\ Concat(DataOf(sent)) = InRange
              /\ SelectKind(sent, "error") = << >>

\* A stream of a range that starts inside the file and ends before its end has
\* finished, its last read cut; and a stream whose range starts at the end of
\* the file has finished.
C30_Witness ==
    /\ fstat = "regular" /\ ~brAll /\ fpc = "done" /\ rdFailAt = NoFail /\ ~ctxDone
    /\ brStart > 0
    /\ brEnd < Len(input)
    /\ InRange # << >>
    /\ Concat(DataOf(sent)) = InRange

\* C31: every data chunk of a file stream carries the offset of its first byte
\* in the file (the start of the range plus the sizes of the chunks sent before
\* it) and its own size.
C31_ChunkOffsets ==
    LET chunks == SelectKind(sent, "data")
    IN  fpc # "idle" =>
          \A k \in 1..Len(chunks) :
             /\ chunks[k].size = Len(chunks[k].data)
             /\ chunks[k].off =
                  (IF brAll THEN 0 ELSE brStart) + Len(Concat([j \in 1..(k - 1) |-> chunks[j].data]))

\* ---- directory stream (SpecDir)
\* The entries the directory stream has delivered: the Entries of its packets.
DirEntries ==
    Concat([i \in 1..Len(SelectKind(sent, "entries")) |-> SelectKind(sent, "entries")[i].entries])

\* The children among them: every entry but the ".." of the parent.
DirChildren == SelectSeq(DirEntries, LAMBDA x : x.name # DotDot)

\* The directory stream ran to its end without a failure or a cancellation.
DirStreamed == fstat = "dir" /\ fpc = "done" /\ lfail = "none" /\ ~ctxDone

\* The children at positions from..to (counted from 0, to excluded) of the listing.
ChildrenAt(from, to) ==
    LET c == Slice(ReadDir(tree), from, Min(to, Len(ReadDir(tree))))
    IN  [k \in 1..Len(c) |-> statToFileInfo(tree, c[k])]

\* C33: a directory stream with range s-e on a directory with N children
\* returns exactly the children at positions s up to min(e, N), in listing
\* order, and no error; when s >= N nothing but the stat record is sent.
C33_DirRange ==
    (DirStreamed /\ ~brAll) =>
        /\ DirChildren = ChildrenAt(brStart, brEnd)
        /\ SelectKind(sent, "error") = << >>
        /\ brStart >= Len(ReadDir(tree)) => sent = <<InfoPkt(FALSE)>>

\* ---- entry batches (SpecBatch)
\* The batches of entries sent so far: by the directory stream the slices handed
\* to dataCallback (every packet after the stat record), by listEntries the
\* FileInfo of every packet.
Batches ==
    LET ps == SelectSeq(sent, LAMBDA p : p.kind = "entries" \/ "entries" \in DOMAIN p)
    IN  [i \in 1..Len(ps) |->
            IF "entries" \notin DOMAIN ps[i] THEN ps[i].data
            ELSE IF ps[i].kind = "entries" THEN ps[i].entries
            ELSE <<ps[i].info>>]

\* C32: every batch of entries sent by the directory stream and by listEntries
\* holds at least one and at most DirChunkSize entries, and a stream of a whole
\* directory sends at most MaxDirSize children in total.
C32_BatchBounds ==
    /\ \A i \in 1..Len(Batches) : Len(Batches[i]) >= 1 /\ Len(Batches[i]) <= DirChunkSize
    /\ (fstat = "dir" /\ brAll) =>
          Len(SelectSeq(Concat(Batches), LAMBDA x : x.name # DotDot)) <= MaxDirSize

\* A whole-directory stream of a directory with more than MaxDirSize children
\* has ended after several batches.
C32_Witness ==
    /\ DirStreamed
    /\ brAll
    /\ Len(ReadDir(tree)) > MaxDirSize
    /\ dparent = "other"
    /\ Len(Batches) >= 2
    /\ Len(SelectSeq(Concat(Batches), LAMBDA x : x.name # DotDot)) = MaxDirSize

\* C34: in a directory stream that returns entries, the first entry of the first
\* batch is the parent entry, named ".." and of size -1, when the parent of the
\* path (whose stat succeeds) is not the path itself, and no entry is named ".."
\* when the parent is the path itself; listEntries never sends a ".." entry.
C34_ParentEntryFirst ==
    /\ (fstat = "dir" /\ dparent # "staterr" /\ DirEntries # << >>) =>
          /\ dparent = "other" =>
                /\ DirEntries[1].name = DotDot /\ DirEntries[1].size = 0 - 1
                /\ \A k \in 2..Len(DirEntries) : DirEntries[k].name # DotDot
          /\ dparent = "same" => \A k \in 1..Len(DirEntries) : DirEntries[k].name # DotDot
    /\ lpc # "idle" => \A k \in 1..Len(Listed) : Listed[k].name # DotDot

\* A stream of a range that starts after the first child has delivered its
\* entries, the parent entry first.
C34_Witness ==
    /\ DirStreamed
    /\ ~brAll /\ brStart > 0
    /\ dparent = "other"
    /\ Len(DirEntries) >= 2
    /\ DirEntries[1] = ParentEntry

\* ---- WriterChan and ReaderChan (SpecIO)
\* WriterChan has left its loop.
WrStopped == wpc \in {"defer1", "defer2", "done"}

\* C35: WriterChan stops at the first failure: an error packet is handed to the
\* failure callback, a failed write hands it a non-nil error, the callback runs
\* once, the loop is left, and the output holds no byte of a later packet.
C35_StopsAtFirstFailure ==
    /\ \A i \in 1..Len(errCb) : errCb[i] # "nil"
    /\ Len(errCb) <= 1
    /\ errCb # << >> => WrStopped
    /\ out = Concat(SubSeq(delivered, 1, nWrites))
    /\ Len(delivered) > nWrites => (Len(delivered) = nWrites + 1 /\ errCb # << >>)
    /\ \A k \in 1..Len(sent) :
          (sent[k].kind = "error" /\ wpc = "done" /\ ~ctxDone /\ Len(delivered) = k - 1 /\ nWrites = k - 1)
              => errCb = <<sent[k].sum[1]>>

\* C36: every read of the input that returns bytes is folded into the digest and
\* sent as one data packet with those bytes, a read that returns bytes together
\* with io.EOF included: whenever ReaderChan is between two reads or has left
\* its loop, the data packets sent are the bytes read so far, one packet per
\* read, and (ver 2) the digest covers them.
C36_NoBytesDropped ==
    (rpc \in {"select", "defer1", "defer2", "done"}) =>
        /\ Concat(DataOf(sent)) = SubSeq(input, 1, rpos)
        /\ Len(DataOf(sent)) = nReads
        /\ ver = 2 => rhash = SubSeq(input, 1, rpos)
        /\ \A k \in 1..Len(sent) :
              sent[k].kind = "checksum" => sent[k].sum = HashSum(SubSeq(input, 1, rpos))

\* C38: the bytes of a data packet queued on the channel are never changed by
\* the producer: a packet waiting in the channel still holds the bytes it was
\* sent with, in both versions of ReaderChan.
C38_QueuedChunksStable ==
    /\ Len(ch) <= Len(sent)
    /\ \A i \in 1..Len(ch) : ch[i].data = sent[Len(sent) - Len(ch) + i].data

\* ---- copy: the destination after a failure (SpecCopy)
\* Everything that existed at or below the destination path when copy was called
\* is still there, unchanged.
DestinationKept == \A p \in Paths : fs0[p].kind # "none" => fs[p] = fs0[p]

\* C37: when copy returns an error, what existed at the destination path before
\* the call still exists with the same contents; in particular a copy with
\* overwrite = true whose source cannot be streamed keeps the destination.
C37_ErrorKeepsDestination ==
    cpc = "done" =>
        /\ CopyFailed => DestinationKept
        /\ (overwrite /\ cfail = "next") => DestinationKept


\* ---- touch, mkdir, rename (SpecOp)
OpTargetExisted == Stat(fs0, OpTarget) = "ok"

\* C39: touch, mkdir and rename never modify an existing target: when the
\* target path (for rename, the new path) exists at the call, the filesystem
\* stays as it was and the command returns an error.
C39_ExistingTargetKept ==
    OpTargetExisted =>
        /\ fs = fs0
        /\ opc = "done" => opErr # "nil"

\* rename has returned for an existing source file and an existing
\* destination file: os.Rename would have replaced the destination
C39_Witness ==
    /\ opc = "done"
    /\ opName = "rename"
    /\ opPath # opNew
    /\ fs0[opPath].kind = "file"
    /\ fs0[opNew].kind = "file"
    /\ OpTargetExisted


\* ---- recursive listing: the paths of the entries (SpecList)
\* The path of node i relative to the listed path.
RelPath(t, i) ==
    IF t[i].nested THEN <<Name(t, ParentOf(t, i)), Name(t, i)>> ELSE <<Name(t, i)>>

\* C40: in a recursive listing that ended without a failure, the path of every
\* returned entry is the listed path joined with the entry's path relative to
\* it, and no two returned entries have the same path.
C40_RecursivePaths ==
    (ListedAll /\ lall) =>
        /\ Len(Listed) = Len(innerFilesEntries)
        /\ \A k \in 1..Len(Listed) : Listed[k].path = RelPath(tree, innerFilesEntries[k])
        /\ \A k, l \in 1..Len(Listed) : Listed[k].path = Listed[l].path => k = l

=============================================================================
